---- MODULE Spec2Model ----
(***************************************************************************)
(* Model of main.py: AnalizadorLexico (tokenizar) and AnalizadorSemantico  *)
(* (analizar, analizar_tokens and its handlers, the post-scan checks).     *)
(* Source text, token values, variable names and type names are sequences  *)
(* of one-character strings, so that the lexer works on characters.        *)
(***************************************************************************)
EXTENDS Integers, Sequences, FiniteSets, TLC

VARIABLES
    pc,              \* position of the call of analizar
    codigo,          \* argument of the current call of analizar
    corridas,        \* number of calls of analizar made on this context
    tokens,          \* self.tokens
    posicion,        \* self.posicion
    tabla_simbolos,  \* self.tabla_simbolos, in insertion order
    errores,         \* self.errores
    advertencias,    \* self.advertencias
    hilos            \* callers that share the context: where each one is in its
                     \* call of analizar, its argument and the report it got

vars == <<pc, codigo, corridas, tokens, posicion, tabla_simbolos, errores, advertencias,
          hilos>>

----------------------------------------------------------------------------
(* Characters *)

\* A character is a one-character string when its code point is at most U+00FF;
\* a character above U+00FF is written as the decimal numeral of its code point
\* ("1635" is U+0663).
CaracterDe(n) == ToString(n)

\* the characters of the ranges of code points first1, last1, first2, last2, ...
CaracteresDe(rangos) ==
    { CaracterDe(n) : n \in UNION { rangos[2*i - 1]..rangos[2*i] : i \in 1..(Len(rangos) \div 2) } }

Minusculas == {"a","b","c","d","e","f","g","h","i","j","k","l","m",
               "n","o","p","q","r","s","t","u","v","w","x","y","z"}

Mayusculas == {"A","B","C","D","E","F","G","H","I","J","K","L","M",
               "N","O","P","Q","R","S","T","U","V","W","X","Y","Z"}

\* 0-9 of the pattern IDENTIFICADOR
DigitosAscii == {"0","1","2","3","4","5","6","7","8","9"}

\* the decimal digits above U+00FF (the patterns are str patterns compiled
\* without re.ASCII): ranges of code points
RangosDigitos == <<
    1632,1641,  1776,1785,  1984,1993,  2406,2415,  2534,2543,  2662,2671,
    2790,2799,  2918,2927,  3046,3055,  3174,3183,  3302,3311,  3430,3439,
    3558,3567,  3664,3673,  3792,3801,  3872,3881,  4160,4169,  4240,4249,
    6112,6121,  6160,6169,  6470,6479,  6608,6617,  6784,6793,  6800,6809,
    6992,7001,  7088,7097,  7232,7241,  7248,7257,  42528,42537,  43216,43225,
    43264,43273,  43472,43481,  43504,43513,  43600,43609,  44016,44025,  65296,65305,
    66720,66729,  68912,68921,  69734,69743,  69872,69881,  69942,69951,  70096,70105,
    70384,70393,  70736,70745,  70864,70873,  71248,71257,  71360,71369,  71472,71481,
    71904,71913,  72016,72025,  72784,72793,  73040,73049,  73120,73129,  92768,92777,
    92864,92873,  93008,93017,  120782,120831,  123200,123209,  123632,123641,  125264,125273,
    130032,130041 >>

\* \d of the regular expressions: every decimal digit of Unicode
Digitos == DigitosAscii \cup CaracteresDe(RangosDigitos)

\* the characters U+0080..U+00FF that \w matches
PalabraLatin1 == {
    "ª", "²", "³", "µ", "¹", "º", "¼", "½", "¾", "À", "Á", "Â", "Ã", "Ä", "Å", "Æ",
    "Ç", "È", "É", "Ê", "Ë", "Ì", "Í", "Î", "Ï", "Ð", "Ñ", "Ò", "Ó", "Ô", "Õ", "Ö",
    "Ø", "Ù", "Ú", "Û", "Ü", "Ý", "Þ", "ß", "à", "á", "â", "ã", "ä", "å", "æ", "ç",
    "è", "é", "ê", "ë", "ì", "í", "î", "ï", "ð", "ñ", "ò", "ó", "ô", "õ", "ö", "ø",
    "ù", "ú", "û", "ü", "ý", "þ", "ÿ" }

\* the characters above U+00FF that \w matches: ranges of code points
RangosPalabra == <<
    256,705,  710,721,  736,740,  748,748,  750,750,  880,884,
    886,887,  890,893,  895,895,  902,902,  904,906,  908,908,
    910,929,  931,1013,  1015,1153,  1162,1327,  1329,1366,  1369,1369,
    1376,1416,  1488,1514,  1519,1522,  1568,1610,  1632,1641,  1646,1647,
    1649,1747,  1749,1749,  1765,1766,  1774,1788,  1791,1791,  1808,1808,
    1810,1839,  1869,1957,  1969,1969,  1984,2026,  2036,2037,  2042,2042,
    2048,2069,  2074,2074,  2084,2084,  2088,2088,  2112,2136,  2144,2154,
    2160,2183,  2185,2190,  2208,2249,  2308,2361,  2365,2365,  2384,2384,
    2392,2401,  2406,2415,  2417,2432,  2437,2444,  2447,2448,  2451,2472,
    2474,2480,  2482,2482,  2486,2489,  2493,2493,  2510,2510,  2524,2525,
    2527,2529,  2534,2545,  2548,2553,  2556,2556,  2565,2570,  2575,2576,
    2579,2600,  2602,2608,  2610,2611,  2613,2614,  2616,2617,  2649,2652,
    2654,2654,  2662,2671,  2674,2676,  2693,2701,  2703,2705,  2707,2728,
    2730,2736,  2738,2739,  2741,2745,  2749,2749,  2768,2768,  2784,2785,
    2790,2799,  2809,2809,  2821,2828,  2831,2832,  2835,2856,  2858,2864,
    2866,2867,  2869,2873,  2877,2877,  2908,2909,  2911,2913,  2918,2927,
    2929,2935,  2947,2947,  2949,2954,  2958,2960,  2962,2965,  2969,2970,
    2972,2972,  2974,2975,  2979,2980,  2984,2986,  2990,3001,  3024,3024,
    3046,3058,  3077,3084,  3086,3088,  3090,3112,  3114,3129,  3133,3133,
    3160,3162,  3165,3165,  3168,3169,  3174,3183,  3192,3198,  3200,3200,
    3205,3212,  3214,3216,  3218,3240,  3242,3251,  3253,3257,  3261,3261,
    3293,3294,  3296,3297,  3302,3311,  3313,3314,  3332,3340,  3342,3344,
    3346,3386,  3389,3389,  3406,3406,  3412,3414,  3416,3425,  3430,3448,
    3450,3455,  3461,3478,  3482,3505,  3507,3515,  3517,3517,  3520,3526,
    3558,3567,  3585,3632,  3634,3635,  3648,3654,  3664,3673,  3713,3714,
    3716,3716,  3718,3722,  3724,3747,  3749,3749,  3751,3760,  3762,3763,
    3773,3773,  3776,3780,  3782,3782,  3792,3801,  3804,3807,  3840,3840,
    3872,3891,  3904,3911,  3913,3948,  3976,3980,  4096,4138,  4159,4169,
    4176,4181,  4186,4189,  4193,4193,  4197,4198,  4206,4208,  4213,4225,
    4238,4238,  4240,4249,  4256,4293,  4295,4295,  4301,4301,  4304,4346,
    4348,4680,  4682,4685,  4688,4694,  4696,4696,  4698,4701,  4704,4744,
    4746,4749,  4752,4784,  4786,4789,  4792,4798,  4800,4800,  4802,4805,
    4808,4822,  4824,4880,  4882,4885,  4888,4954,  4969,4988,  4992,5007,
    5024,5109,  5112,5117,  5121,5740,  5743,5759,  5761,5786,  5792,5866,
    5870,5880,  5888,5905,  5919,5937,  5952,5969,  5984,5996,  5998,6000,
    6016,6067,  6103,6103,  6108,6108,  6112,6121,  6128,6137,  6160,6169,
    6176,6264,  6272,6276,  6279,6312,  6314,6314,  6320,6389,  6400,6430,
    6470,6509,  6512,6516,  6528,6571,  6576,6601,  6608,6618,  6656,6678,
    6688,6740,  6784,6793,  6800,6809,  6823,6823,  6917,6963,  6981,6988,
    6992,7001,  7043,7072,  7086,7141,  7168,7203,  7232,7241,  7245,7293,
    7296,7304,  7312,7354,  7357,7359,  7401,7404,  7406,7411,  7413,7414,
    7418,7418,  7424,7615,  7680,7957,  7960,7965,  7968,8005,  8008,8013,
    8016,8023,  8025,8025,  8027,8027,  8029,8029,  8031,8061,  8064,8116,
    8118,8124,  8126,8126,  8130,8132,  8134,8140,  8144,8147,  8150,8155,
    8160,8172,  8178,8180,  8182,8188,  8304,8305,  8308,8313,  8319,8329,
    8336,8348,  8450,8450,  8455,8455,  8458,8467,  8469,8469,  8473,8477,
    8484,8484,  8486,8486,  8488,8488,  8490,8493,  8495,8505,  8508,8511,
    8517,8521,  8526,8526,  8528,8585,  9312,9371,  9450,9471,  10102,10131,
    11264,11492,  11499,11502,  11506,11507,  11517,11517,  11520,11557,  11559,11559,
    11565,11565,  11568,11623,  11631,11631,  11648,11670,  11680,11686,  11688,11694,
    11696,11702,  11704,11710,  11712,11718,  11720,11726,  11728,11734,  11736,11742,
    11823,11823,  12293,12295,  12321,12329,  12337,12341,  12344,12348,  12353,12438,
    12445,12447,  12449,12538,  12540,12543,  12549,12591,  12593,12686,  12690,12693,
    12704,12735,  12784,12799,  12832,12841,  12872,12879,  12881,12895,  12928,12937,
    12977,12991,  13312,19903,  19968,42124,  42192,42237,  42240,42508,  42512,42539,
    42560,42606,  42623,42653,  42656,42735,  42775,42783,  42786,42888,  42891,42954,
    42960,42961,  42963,42963,  42965,42969,  42994,43009,  43011,43013,  43015,43018,
    43020,43042,  43056,43061,  43072,43123,  43138,43187,  43216,43225,  43250,43255,
    43259,43259,  43261,43262,  43264,43301,  43312,43334,  43360,43388,  43396,43442,
    43471,43481,  43488,43492,  43494,43518,  43520,43560,  43584,43586,  43588,43595,
    43600,43609,  43616,43638,  43642,43642,  43646,43695,  43697,43697,  43701,43702,
    43705,43709,  43712,43712,  43714,43714,  43739,43741,  43744,43754,  43762,43764,
    43777,43782,  43785,43790,  43793,43798,  43808,43814,  43816,43822,  43824,43866,
    43868,43881,  43888,44002,  44016,44025,  44032,55203,  55216,55238,  55243,55291,
    63744,64109,  64112,64217,  64256,64262,  64275,64279,  64285,64285,  64287,64296,
    64298,64310,  64312,64316,  64318,64318,  64320,64321,  64323,64324,  64326,64433,
    64467,64829,  64848,64911,  64914,64967,  65008,65019,  65136,65140,  65142,65276,
    65296,65305,  65313,65338,  65345,65370,  65382,65470,  65474,65479,  65482,65487,
    65490,65495,  65498,65500,  65536,65547,  65549,65574,  65576,65594,  65596,65597,
    65599,65613,  65616,65629,  65664,65786,  65799,65843,  65856,65912,  65930,65931,
    66176,66204,  66208,66256,  66273,66299,  66304,66339,  66349,66378,  66384,66421,
    66432,66461,  66464,66499,  66504,66511,  66513,66517,  66560,66717,  66720,66729,
    66736,66771,  66776,66811,  66816,66855,  66864,66915,  66928,66938,  66940,66954,
    66956,66962,  66964,66965,  66967,66977,  66979,66993,  66995,67001,  67003,67004,
    67072,67382,  67392,67413,  67424,67431,  67456,67461,  67463,67504,  67506,67514,
    67584,67589,  67592,67592,  67594,67637,  67639,67640,  67644,67644,  67647,67669,
    67672,67702,  67705,67742,  67751,67759,  67808,67826,  67828,67829,  67835,67867,
    67872,67897,  67968,68023,  68028,68047,  68050,68096,  68112,68115,  68117,68119,
    68121,68149,  68160,68168,  68192,68222,  68224,68255,  68288,68295,  68297,68324,
    68331,68335,  68352,68405,  68416,68437,  68440,68466,  68472,68497,  68521,68527,
    68608,68680,  68736,68786,  68800,68850,  68858,68899,  68912,68921,  69216,69246,
    69248,69289,  69296,69297,  69376,69415,  69424,69445,  69457,69460,  69488,69505,
    69552,69579,  69600,69622,  69635,69687,  69714,69743,  69745,69746,  69749,69749,
    69763,69807,  69840,69864,  69872,69881,  69891,69926,  69942,69951,  69956,69956,
    69959,69959,  69968,70002,  70006,70006,  70019,70066,  70081,70084,  70096,70106,
    70108,70108,  70113,70132,  70144,70161,  70163,70187,  70272,70278,  70280,70280,
    70282,70285,  70287,70301,  70303,70312,  70320,70366,  70384,70393,  70405,70412,
    70415,70416,  70419,70440,  70442,70448,  70450,70451,  70453,70457,  70461,70461,
    70480,70480,  70493,70497,  70656,70708,  70727,70730,  70736,70745,  70751,70753,
    70784,70831,  70852,70853,  70855,70855,  70864,70873,  71040,71086,  71128,71131,
    71168,71215,  71236,71236,  71248,71257,  71296,71338,  71352,71352,  71360,71369,
    71424,71450,  71472,71483,  71488,71494,  71680,71723,  71840,71922,  71935,71942,
    71945,71945,  71948,71955,  71957,71958,  71960,71983,  71999,71999,  72001,72001,
    72016,72025,  72096,72103,  72106,72144,  72161,72161,  72163,72163,  72192,72192,
    72203,72242,  72250,72250,  72272,72272,  72284,72329,  72349,72349,  72368,72440,
    72704,72712,  72714,72750,  72768,72768,  72784,72812,  72818,72847,  72960,72966,
    72968,72969,  72971,73008,  73030,73030,  73040,73049,  73056,73061,  73063,73064,
    73066,73097,  73112,73112,  73120,73129,  73440,73458,  73648,73648,  73664,73684,
    73728,74649,  74752,74862,  74880,75075,  77712,77808,  77824,78894,  82944,83526,
    92160,92728,  92736,92766,  92768,92777,  92784,92862,  92864,92873,  92880,92909,
    92928,92975,  92992,92995,  93008,93017,  93019,93025,  93027,93047,  93053,93071,
    93760,93846,  93952,94026,  94032,94032,  94099,94111,  94176,94177,  94179,94179,
    94208,100343,  100352,101589,  101632,101640,  110576,110579,  110581,110587,  110589,110590,
    110592,110882,  110928,110930,  110948,110951,  110960,111355,  113664,113770,  113776,113788,
    113792,113800,  113808,113817,  119520,119539,  119648,119672,  119808,119892,  119894,119964,
    119966,119967,  119970,119970,  119973,119974,  119977,119980,  119982,119993,  119995,119995,
    119997,120003,  120005,120069,  120071,120074,  120077,120084,  120086,120092,  120094,120121,
    120123,120126,  120128,120132,  120134,120134,  120138,120144,  120146,120485,  120488,120512,
    120514,120538,  120540,120570,  120572,120596,  120598,120628,  120630,120654,  120656,120686,
    120688,120712,  120714,120744,  120746,120770,  120772,120779,  120782,120831,  122624,122654,
    123136,123180,  123191,123197,  123200,123209,  123214,123214,  123536,123565,  123584,123627,
    123632,123641,  124896,124902,  124904,124907,  124909,124910,  124912,124926,  124928,125124,
    125127,125135,  125184,125251,  125259,125259,  125264,125273,  126065,126123,  126125,126127,
    126129,126132,  126209,126253,  126255,126269,  126464,126467,  126469,126495,  126497,126498,
    126500,126500,  126503,126503,  126505,126514,  126516,126519,  126521,126521,  126523,126523,
    126530,126530,  126535,126535,  126537,126537,  126539,126539,  126541,126543,  126545,126546,
    126548,126548,  126551,126551,  126553,126553,  126555,126555,  126557,126557,  126559,126559,
    126561,126562,  126564,126564,  126567,126570,  126572,126578,  126580,126583,  126585,126588,
    126590,126590,  126592,126601,  126603,126619,  126625,126627,  126629,126633,  126635,126651,
    127232,127244,  130032,130041,  131072,173791,  173824,177976,  177984,178205,  178208,183969,
    183984,191456,  194560,195101,  196608,201546 >>

PalabraUnicode == CaracteresDe(RangosPalabra)

\* \w of the regular expressions
EsPalabra(c) ==
    \/ c \in Minusculas \cup Mayusculas \cup DigitosAscii \cup {"_"}
    \/ c \in PalabraLatin1
    \/ c \in PalabraUnicode

\* [a-zA-Z_]
EsInicioId(c) == c \in Minusculas \cup Mayusculas \cup {"_"}

\* [+\-*/%<>=!&|]
CarOperador == {"+","-","*","/","%","<",">","=","!","&","|"}

\* [(){}[\]]
CarParentesis == {"(",")","{","}","[","]"}

\* what str.strip() removes, the characters of str.isspace() (a line holds no
\* "\n"): blank, \t, \r, \f, U+000B, U+001C..U+001F, U+0085, U+00A0 and the
\* blanks above U+00FF
Blancos ==
    {" ", "\t", "\r", "\f", "", "", "", "", "", "", " "}
    \cup { CaracterDe(n) : n \in {5760, 8192, 8193, 8194, 8195, 8196, 8197, 8198, 8199, 8200, 8201, 8202, 8232, 8233, 8239, 8287, 12288} }

----------------------------------------------------------------------------
(* Lexemes of the patterns of AnalizadorLexico.__init__ *)

TiposDato == << <<"i","n","t">>, <<"f","l","o","a","t">>, <<"d","o","u","b","l","e">>,
                <<"b","o","o","l">>, <<"c","h","a","r">>, <<"s","t","r","i","n","g">>,
                <<"v","o","i","d">> >>

PalabrasClave == << <<"i","f">>, <<"e","l","s","e">>, <<"w","h","i","l","e">>, <<"f","o","r">>,
                    <<"r","e","t","u","r","n">>, <<"b","r","e","a","k">>,
                    <<"c","o","n","t","i","n","u","e">>, <<"s","w","i","t","c","h">>,
                    <<"c","a","s","e">>, <<"d","e","f","a","u","l","t">> >>

Booleanos == << <<"t","r","u","e">>, <<"f","a","l","s","e">> >>

----------------------------------------------------------------------------
(* Matching at position p (1-based) of a line *)

\* \b between the characters p-1 and p
Borde(linea, p) ==
    LET antes == p > 1 /\ p - 1 <= Len(linea) /\ EsPalabra(linea[p - 1])
        despues == p >= 1 /\ p <= Len(linea) /\ EsPalabra(linea[p])
    IN antes # despues

\* the literal w stands at p
LiteralEn(linea, p, w) ==
    /\ p + Len(w) - 1 <= Len(linea)
    /\ \A k \in 1..Len(w) : linea[p + k - 1] = w[k]

\* \b(w1|w2|...)\b : end of the first alternative that matches, 0 if none
RECURSIVE FinAlternativa(_, _, _, _)
FinAlternativa(linea, p, ws, k) ==
    IF k > Len(ws) THEN 0
    ELSE IF LiteralEn(linea, p, ws[k]) /\ Borde(linea, p + Len(ws[k]))
         THEN p + Len(ws[k]) - 1
         ELSE FinAlternativa(linea, p, ws, k + 1)

FinPalabras(linea, p, ws) ==
    IF Borde(linea, p) THEN FinAlternativa(linea, p, ws, 1) ELSE 0

\* length of the longest run of characters of the class from p on
RECURSIVE Racha(_, _, _)
Racha(linea, p, clase) ==
    IF p <= Len(linea) /\ linea[p] \in clase
    THEN 1 + Racha(linea, p + 1, clase)
    ELSE 0

\* \d* from q followed by \b : greedy, giving back one digit at a time;
\* the end of the match, 0 if no length works
RECURSIVE FinDigitosOpc(_, _, _)
FinDigitosOpc(linea, q, n) ==
    IF Borde(linea, q + n) THEN q + n - 1
    ELSE IF n = 0 THEN 0
    ELSE FinDigitosOpc(linea, q, n - 1)

\* \d+\.?\d*\b with \d+ of n1 digits from p, n1 going down to 1
RECURSIVE FinNumeroDesde(_, _, _)
FinNumeroDesde(linea, p, n1) ==
    IF n1 < 1 THEN 0
    ELSE
      LET q == p + n1
          conPunto == IF q <= Len(linea) /\ linea[q] = "."
                      THEN FinDigitosOpc(linea, q + 1, Racha(linea, q + 1, Digitos))
                      ELSE 0
          sinPunto == FinDigitosOpc(linea, q, Racha(linea, q, Digitos))
      IN IF conPunto # 0 THEN conPunto
         ELSE IF sinPunto # 0 THEN sinPunto
         ELSE FinNumeroDesde(linea, p, n1 - 1)

\* \b\d+\.?\d*\b
FinNumero(linea, p) ==
    IF Borde(linea, p) /\ linea[p] \in Digitos
    THEN FinNumeroDesde(linea, p, Racha(linea, p, Digitos))
    ELSE 0

\* "[^"]*"
FinCadena(linea, p) ==
    IF linea[p] = "\"" /\ \E q \in (p + 1)..Len(linea) : linea[q] = "\""
    THEN CHOOSE q \in (p + 1)..Len(linea) :
            /\ linea[q] = "\""
            /\ \A r \in (p + 1)..(q - 1) : linea[r] # "\""
    ELSE 0

\* \b[a-zA-Z_][a-zA-Z0-9_]*\b
FinIdentificador(linea, p) ==
    IF Borde(linea, p) /\ EsInicioId(linea[p])
    THEN LET fin == p + Racha(linea, p,
                              Minusculas \cup Mayusculas \cup DigitosAscii \cup {"_"}) - 1
         IN IF Borde(linea, fin + 1) THEN fin ELSE 0
    ELSE 0

\* Variant of Coincidencia: the pattern OPERADOR is tried before ASIGNACION.
CoincidenciaOperadorAntes(linea, p) ==
    IF FinPalabras(linea, p, TiposDato) # 0
      THEN [tipo |-> "TIPO_DATO", fin |-> FinPalabras(linea, p, TiposDato)]
    ELSE IF FinPalabras(linea, p, PalabrasClave) # 0
      THEN [tipo |-> "PALABRA_CLAVE", fin |-> FinPalabras(linea, p, PalabrasClave)]
    ELSE IF FinPalabras(linea, p, Booleanos) # 0
      THEN [tipo |-> "BOOLEANO", fin |-> FinPalabras(linea, p, Booleanos)]
    ELSE IF FinNumero(linea, p) # 0
      THEN [tipo |-> "NUMERO", fin |-> FinNumero(linea, p)]
    ELSE IF FinCadena(linea, p) # 0
      THEN [tipo |-> "CADENA", fin |-> FinCadena(linea, p)]
    ELSE IF FinIdentificador(linea, p) # 0
      THEN [tipo |-> "IDENTIFICADOR", fin |-> FinIdentificador(linea, p)]
    ELSE IF linea[p] \in CarOperador
      THEN [tipo |-> "OPERADOR", fin |-> p + Racha(linea, p, CarOperador) - 1]
    ELSE IF linea[p] = "="
      THEN [tipo |-> "ASIGNACION", fin |-> p]
    ELSE IF linea[p] \in CarParentesis
      THEN [tipo |-> "PARENTESIS", fin |-> p]
    ELSE IF linea[p] = ";"
      THEN [tipo |-> "PUNTO_COMA", fin |-> p]
    ELSE [tipo |-> "NINGUNO", fin |-> 0]

\* The alternation of patron_compilado tried at p, in the order of self.patrones:
\* the first pattern that matches, with the end of its match.
Coincidencia(linea, p) ==
    IF FinPalabras(linea, p, TiposDato) # 0
      THEN [tipo |-> "TIPO_DATO", fin |-> FinPalabras(linea, p, TiposDato)]
    ELSE IF FinPalabras(linea, p, PalabrasClave) # 0
      THEN [tipo |-> "PALABRA_CLAVE", fin |-> FinPalabras(linea, p, PalabrasClave)]
    ELSE IF FinPalabras(linea, p, Booleanos) # 0
      THEN [tipo |-> "BOOLEANO", fin |-> FinPalabras(linea, p, Booleanos)]
    ELSE IF FinNumero(linea, p) # 0
      THEN [tipo |-> "NUMERO", fin |-> FinNumero(linea, p)]
    ELSE IF FinCadena(linea, p) # 0
      THEN [tipo |-> "CADENA", fin |-> FinCadena(linea, p)]
    ELSE IF FinIdentificador(linea, p) # 0
      THEN [tipo |-> "IDENTIFICADOR", fin |-> FinIdentificador(linea, p)]
    ELSE IF linea[p] = "="
      THEN [tipo |-> "ASIGNACION", fin |-> p]
    ELSE IF linea[p] \in CarOperador
      THEN [tipo |-> "OPERADOR", fin |-> p + Racha(linea, p, CarOperador) - 1]
    ELSE IF linea[p] \in CarParentesis
      THEN [tipo |-> "PARENTESIS", fin |-> p]
    ELSE IF linea[p] = ";"
      THEN [tipo |-> "PUNTO_COMA", fin |-> p]
    ELSE [tipo |-> "NINGUNO", fin |-> 0]

\* Token(tipo, valor, linea, columna)
Token(tipo, valor, linea, columna) ==
    [tipo |-> tipo, valor |-> valor, linea |-> linea, columna |-> columna]

\* self.regex.finditer(linea) from p on: leftmost matches, not overlapping;
\* a character where nothing matches is skipped
RECURSIVE Finditer(_, _, _)
Finditer(linea, p, num_linea) ==
    IF p > Len(linea) THEN << >>
    ELSE LET m == Coincidencia(linea, p)
         IN IF m.fin = 0
            THEN Finditer(linea, p + 1, num_linea)
            ELSE << Token(m.tipo, SubSeq(linea, p, m.fin), num_linea, p - 1) >>
                 \o Finditer(linea, m.fin + 1, num_linea)

\* str.strip()
RECURSIVE QuitarIzq(_)
QuitarIzq(s) == IF s # << >> /\ Head(s) \in Blancos THEN QuitarIzq(Tail(s)) ELSE s

RECURSIVE QuitarDer(_)
QuitarDer(s) ==
    IF s # << >> /\ s[Len(s)] \in Blancos THEN QuitarDer(SubSeq(s, 1, Len(s) - 1)) ELSE s

Strip(s) == QuitarDer(QuitarIzq(s))

\* linea.startswith('//')
EmpiezaComentario(s) == Len(s) >= 2 /\ s[1] = "/" /\ s[2] = "/"

\* codigo.split('\n') : the lines of s from p on, acc being the line under way
RECURSIVE Split(_, _, _)
Split(s, p, acc) ==
    IF p > Len(s) THEN << acc >>
    ELSE IF s[p] = "\n" THEN << acc >> \o Split(s, p + 1, << >>)
    ELSE Split(s, p + 1, Append(acc, s[p]))

\* the loop of tokenizar over enumerate(lineas, 1)
RECURSIVE TokensDeLineas(_, _)
TokensDeLineas(lineas, num_linea) ==
    IF num_linea > Len(lineas) THEN << >>
    ELSE LET linea == Strip(lineas[num_linea])
         IN (IF linea = << >> \/ EmpiezaComentario(linea)
             THEN << >>
             ELSE Finditer(linea, 1, num_linea))
            \o TokensDeLineas(lineas, num_linea + 1)

\* AnalizadorLexico.tokenizar
Tokenizar(cod) == TokensDeLineas(Split(cod, 1, << >>), 1)

----------------------------------------------------------------------------
(* AnalizadorSemantico: the context `self` as a record *)

tInt    == TiposDato[1]
tFloat  == TiposDato[2]
tDouble == TiposDato[3]
tBool   == TiposDato[4]
tChar   == TiposDato[5]
tString == TiposDato[6]
tVoid   == TiposDato[7]

\* Variable(nombre, tipo, linea_declaracion), inicializada and usada False
Variable(nombre, tipo, linea_declaracion) ==
    [nombre |-> nombre, tipo |-> tipo, linea_declaracion |-> linea_declaracion,
     inicializada |-> FALSE, usada |-> FALSE]

\* The text of a message: the f-string with its two kinds of holes,
\* {v} filled with valor and {n} filled with numero.
Mensaje(formato, valor, numero) ==
    [formato |-> formato, valor |-> valor, numero |-> numero]

\* Error(tipo, mensaje, linea), columna 0
Error(tipo, mensaje, linea) ==
    [tipo |-> tipo, mensaje |-> mensaje, linea |-> linea, columna |-> 0]

\* (the accents of the source's texts are left out)
MsgSinTokens        == "No se encontraron tokens validos"
MsgDeclIncompleta   == "Declaracion incompleta en linea {n}"
MsgEsperabaId       == "Se esperaba un identificador despues de '{v}' en linea {n}"
MsgYaDeclarada      == "Variable '{v}' ya declarada en linea {n}"
MsgInicIncompleta   == "Inicializacion incompleta para variable '{v}' en linea {n}"
MsgIncompatibleInic == "Tipo incompatible en inicializacion de '{v}' en linea {n}"
MsgNoDeclarada      == "Variable '{v}' no declarada en linea {n}"
MsgAsigIncompleta   == "Asignacion incompleta a variable '{v}'"
MsgIncompatibleAsig == "Tipo incompatible en asignacion a '{v}' en linea {n}"
MsgEsperabaParen    == "Se esperaba '(' despues de '{v}' en linea {n}"
MsgNoUsada          == "Variable '{v}' declarada pero no usada"
MsgSinInicializar   == "Variable '{v}' usada sin inicializar"

\* AnalizadorSemantico.__init__
ContextoNuevo ==
    [tokens |-> << >>, posicion |-> 0, tabla_simbolos |-> << >>,
     errores |-> << >>, advertencias |-> << >>]

\* self.tokens[i], i counted from 0
Tok(self, i) == self.tokens[i + 1]

\* nombre in self.tabla_simbolos
EnTabla(tabla, nombre) == \E i \in 1..Len(tabla) : tabla[i].nombre = nombre

\* position of the key in the dict
Indice(tabla, nombre) == CHOOSE i \in 1..Len(tabla) : tabla[i].nombre = nombre

\* self.tabla_simbolos[nombre]
Simbolo(tabla, nombre) == tabla[Indice(tabla, nombre)]

\* Variant of PonerSimbolo: a new key goes first.
PonerSimboloAlFrente(tabla, nombre, variable) ==
    IF EnTabla(tabla, nombre)
    THEN [tabla EXCEPT ![Indice(tabla, nombre)] = variable]
    ELSE << variable >> \o tabla

\* self.tabla_simbolos[nombre] = variable : a new key goes last, an existing
\* key keeps its place
PonerSimbolo(tabla, nombre, variable) ==
    IF EnTabla(tabla, nombre)
    THEN [tabla EXCEPT ![Indice(tabla, nombre)] = variable]
    ELSE Append(tabla, variable)

\* self.errores.append(...)
ConError(self, e) == [self EXCEPT !.errores = Append(@, e)]

\* Variant of CompatibilidadTipos: every type accepts only itself.
CompatibilidadSoloMismoTipo(tipo_variable) ==
    IF tipo_variable \in {tInt, tFloat, tDouble, tBool, tChar, tString}
    THEN {tipo_variable}
    ELSE {}

\* self.compatibilidad_tipos.get(tipo_variable, [])
CompatibilidadTipos(tipo_variable) ==
    IF tipo_variable = tInt THEN {tInt, tFloat, tDouble}
    ELSE IF tipo_variable = tFloat THEN {tFloat, tDouble}
    ELSE IF tipo_variable = tDouble THEN {tDouble}
    ELSE IF tipo_variable = tBool THEN {tBool}
    ELSE IF tipo_variable = tChar THEN {tChar}
    ELSE IF tipo_variable = tString THEN {tString}
    ELSE {}

\* '.' in token_valor.valor
TienePunto(valor) == \E k \in 1..Len(valor) : valor[k] = "."

\* Variant of VerificarCompatibilidadTipos: an identifier is a compatible value
\* only when its variable is initialized.
VerificarCompatibilidadSoloInicializadas(self, tipo_variable, token_valor) ==
    IF token_valor.tipo = "NUMERO" THEN
        IF TienePunto(token_valor.valor)
        THEN tipo_variable \in {tFloat, tDouble}
        ELSE tipo_variable \in {tInt, tFloat, tDouble}
    ELSE IF token_valor.tipo = "BOOLEANO" THEN tipo_variable = tBool
    ELSE IF token_valor.tipo = "CADENA" THEN tipo_variable = tString
    ELSE IF token_valor.tipo = "IDENTIFICADOR" THEN
        IF EnTabla(self.tabla_simbolos, token_valor.valor)
        THEN /\ Simbolo(self.tabla_simbolos, token_valor.valor).inicializada
             /\ Simbolo(self.tabla_simbolos, token_valor.valor).tipo
                    \in CompatibilidadTipos(tipo_variable)
        ELSE FALSE
    ELSE FALSE

\* verificar_compatibilidad_tipos
VerificarCompatibilidadTipos(self, tipo_variable, token_valor) ==
    IF token_valor.tipo = "NUMERO" THEN
        IF TienePunto(token_valor.valor)
        THEN tipo_variable \in {tFloat, tDouble}
        ELSE tipo_variable \in {tInt, tFloat, tDouble}
    ELSE IF token_valor.tipo = "BOOLEANO" THEN tipo_variable = tBool
    ELSE IF token_valor.tipo = "CADENA" THEN tipo_variable = tString
    ELSE IF token_valor.tipo = "IDENTIFICADOR" THEN
        IF EnTabla(self.tabla_simbolos, token_valor.valor)
        THEN Simbolo(self.tabla_simbolos, token_valor.valor).tipo
                \in CompatibilidadTipos(tipo_variable)
        ELSE FALSE
    ELSE FALSE

\* variable.inicializada = True, on the Variable object held by the table
MarcarInicializada(self, nombre) ==
    [self EXCEPT !.tabla_simbolos[Indice(self.tabla_simbolos, nombre)].inicializada = TRUE]

\* self.tabla_simbolos[nombre].usada = True
MarcarUsada(self, nombre) ==
    [self EXCEPT !.tabla_simbolos[Indice(self.tabla_simbolos, nombre)].usada = TRUE]

\* Variant of AnalizarInicializacion: the cursor is left on the value token.
AnalizarInicializacionSinConsumir(self, nombre) ==
    LET variable == Simbolo(self.tabla_simbolos, nombre)
        s1 == [self EXCEPT !.posicion = @ + 1]
    IN IF s1.posicion >= Len(s1.tokens)
       THEN ConError(s1, Error("ERROR",
                Mensaje(MsgInicIncompleta, variable.nombre, variable.linea_declaracion),
                variable.linea_declaracion))
       ELSE LET token_valor == Tok(s1, s1.posicion)
            IN IF VerificarCompatibilidadTipos(s1, variable.tipo, token_valor)
               THEN MarcarInicializada(s1, nombre)
               ELSE ConError(s1, Error("ERROR",
                       Mensaje(MsgIncompatibleInic, variable.nombre,
                               variable.linea_declaracion),
                       variable.linea_declaracion))

\* analizar_inicializacion(variable), variable being the entry of nombre
AnalizarInicializacion(self, nombre) ==
    LET variable == Simbolo(self.tabla_simbolos, nombre)
        s1 == [self EXCEPT !.posicion = @ + 1]
    IN IF s1.posicion >= Len(s1.tokens)
       THEN ConError(s1, Error("ERROR",
                Mensaje(MsgInicIncompleta, variable.nombre, variable.linea_declaracion),
                variable.linea_declaracion))
       ELSE LET token_valor == Tok(s1, s1.posicion)
                s2 == IF VerificarCompatibilidadTipos(s1, variable.tipo, token_valor)
                      THEN MarcarInicializada(s1, nombre)
                      ELSE ConError(s1, Error("ERROR",
                              Mensaje(MsgIncompatibleInic, variable.nombre,
                                      variable.linea_declaracion),
                              variable.linea_declaracion))
            IN [s2 EXCEPT !.posicion = @ + 1]

\* Variant of YaDeclarada: the test of a second declaration is left out.
YaDeclaradaNunca(self, token_nombre) == FALSE

\* token_nombre.valor in self.tabla_simbolos, the test of a second declaration
YaDeclarada(self, token_nombre) == EnTabla(self.tabla_simbolos, token_nombre.valor)

\* Variant of AnalizarDeclaracion: the token found in place of the name is skipped
\* together with the type keyword.
AnalizarDeclaracionSaltaToken(self) ==
    IF self.posicion >= Len(self.tokens) THEN self
    ELSE
      LET token_tipo == Tok(self, self.posicion)
          s1 == [self EXCEPT !.posicion = @ + 1]
      IN IF s1.posicion >= Len(s1.tokens)
         THEN ConError(s1, Error("ERROR",
                  Mensaje(MsgDeclIncompleta, << >>, token_tipo.linea), token_tipo.linea))
         ELSE
           LET token_nombre == Tok(s1, s1.posicion)
           IN IF token_nombre.tipo # "IDENTIFICADOR"
              THEN [ConError(s1, Error("ERROR",
                        Mensaje(MsgEsperabaId, token_tipo.valor, token_tipo.linea),
                        token_tipo.linea)) EXCEPT !.posicion = @ + 1]
              ELSE IF YaDeclarada(s1, token_nombre)
              THEN ConError(s1, Error("ERROR",
                       Mensaje(MsgYaDeclarada, token_nombre.valor, token_nombre.linea),
                       token_nombre.linea))
              ELSE
                LET variable == Variable(token_nombre.valor, token_tipo.valor,
                                         token_nombre.linea)
                    s2 == [s1 EXCEPT
                             !.tabla_simbolos =
                                 PonerSimbolo(@, token_nombre.valor, variable),
                             !.posicion = @ + 1]
                IN IF s2.posicion < Len(s2.tokens)
                      /\ Tok(s2, s2.posicion).tipo = "ASIGNACION"
                   THEN AnalizarInicializacion(s2, token_nombre.valor)
                   ELSE s2

\* analizar_declaracion
AnalizarDeclaracion(self) ==
    IF self.posicion >= Len(self.tokens) THEN self
    ELSE
      LET token_tipo == Tok(self, self.posicion)
          s1 == [self EXCEPT !.posicion = @ + 1]
      IN IF s1.posicion >= Len(s1.tokens)
         THEN ConError(s1, Error("ERROR",
                  Mensaje(MsgDeclIncompleta, << >>, token_tipo.linea), token_tipo.linea))
         ELSE
           LET token_nombre == Tok(s1, s1.posicion)
           IN IF token_nombre.tipo # "IDENTIFICADOR"
              THEN ConError(s1, Error("ERROR",
                       Mensaje(MsgEsperabaId, token_tipo.valor, token_tipo.linea),
                       token_tipo.linea))
              ELSE IF YaDeclarada(s1, token_nombre)
              THEN ConError(s1, Error("ERROR",
                       Mensaje(MsgYaDeclarada, token_nombre.valor, token_nombre.linea),
                       token_nombre.linea))
              ELSE
                LET variable == Variable(token_nombre.valor, token_tipo.valor,
                                         token_nombre.linea)
                    s2 == [s1 EXCEPT
                             !.tabla_simbolos =
                                 PonerSimbolo(@, token_nombre.valor, variable),
                             !.posicion = @ + 1]
                IN IF s2.posicion < Len(s2.tokens)
                      /\ Tok(s2, s2.posicion).tipo = "ASIGNACION"
                   THEN AnalizarInicializacion(s2, token_nombre.valor)
                   ELSE s2

\* Variant of AnalizarAsignacion: the Error of an incompatible value carries the
\* line of the declaration of the variable.
AnalizarAsignacionLineaDeclaracion(self, nombre_variable) ==
    LET s1 == [self EXCEPT !.posicion = @ + 1]
    IN IF s1.posicion >= Len(s1.tokens)
       THEN ConError(s1, Error("ERROR",
                Mensaje(MsgAsigIncompleta, nombre_variable, 0),
                Tok(s1, s1.posicion - 1).linea))
       ELSE LET token_valor == Tok(s1, s1.posicion)
                variable == Simbolo(s1.tabla_simbolos, nombre_variable)
                s2 == IF VerificarCompatibilidadTipos(s1, variable.tipo, token_valor)
                      THEN MarcarInicializada(s1, nombre_variable)
                      ELSE ConError(s1, Error("ERROR",
                              Mensaje(MsgIncompatibleAsig, nombre_variable,
                                      variable.linea_declaracion),
                              variable.linea_declaracion))
            IN [s2 EXCEPT !.posicion = @ + 1]

\* Variant of AnalizarAsignacion: the variable is marked initialized whatever the
\* outcome of the type check.
AnalizarAsignacionSiempreInicializa(self, nombre_variable) ==
    LET s1 == [self EXCEPT !.posicion = @ + 1]
    IN IF s1.posicion >= Len(s1.tokens)
       THEN ConError(s1, Error("ERROR",
                Mensaje(MsgAsigIncompleta, nombre_variable, 0),
                Tok(s1, s1.posicion - 1).linea))
       ELSE LET token_valor == Tok(s1, s1.posicion)
                variable == Simbolo(s1.tabla_simbolos, nombre_variable)
                s2 == IF VerificarCompatibilidadTipos(s1, variable.tipo, token_valor)
                      THEN MarcarInicializada(s1, nombre_variable)
                      ELSE MarcarInicializada(
                              ConError(s1, Error("ERROR",
                                  Mensaje(MsgIncompatibleAsig, nombre_variable,
                                          token_valor.linea),
                                  token_valor.linea)),
                              nombre_variable)
            IN [s2 EXCEPT !.posicion = @ + 1]

\* analizar_asignacion(nombre_variable)
AnalizarAsignacion(self, nombre_variable) ==
    LET s1 == [self EXCEPT !.posicion = @ + 1]
    IN IF s1.posicion >= Len(s1.tokens)
       THEN ConError(s1, Error("ERROR",
                Mensaje(MsgAsigIncompleta, nombre_variable, 0),
                Tok(s1, s1.posicion - 1).linea))
       ELSE LET token_valor == Tok(s1, s1.posicion)
                variable == Simbolo(s1.tabla_simbolos, nombre_variable)
                s2 == IF VerificarCompatibilidadTipos(s1, variable.tipo, token_valor)
                      THEN MarcarInicializada(s1, nombre_variable)
                      ELSE ConError(s1, Error("ERROR",
                              Mensaje(MsgIncompatibleAsig, nombre_variable,
                                      token_valor.linea),
                              token_valor.linea))
            IN [s2 EXCEPT !.posicion = @ + 1]

\* Variant of AnalizarIdentificador: an undeclared name followed by '=' has its
\* assignment skipped together with it.
AnalizarIdentificadorSaltaAsignacion(self) ==
    LET token_identificador == Tok(self, self.posicion)
    IN IF ~EnTabla(self.tabla_simbolos, token_identificador.valor)
       THEN [ConError(self, Error("ERROR",
                 Mensaje(MsgNoDeclarada, token_identificador.valor,
                         token_identificador.linea),
                 token_identificador.linea))
             EXCEPT !.posicion =
                 IF self.posicion + 1 < Len(self.tokens)
                    /\ Tok(self, self.posicion + 1).tipo = "ASIGNACION"
                 THEN @ + 3 ELSE @ + 1]
       ELSE LET s1 == MarcarUsada(self, token_identificador.valor)
            IN IF s1.posicion + 1 < Len(s1.tokens)
                  /\ Tok(s1, s1.posicion + 1).tipo = "ASIGNACION"
               THEN AnalizarAsignacion([s1 EXCEPT !.posicion = @ + 1],
                                       token_identificador.valor)
               ELSE [s1 EXCEPT !.posicion = @ + 1]

\* analizar_identificador
AnalizarIdentificador(self) ==
    LET token_identificador == Tok(self, self.posicion)
    IN IF ~EnTabla(self.tabla_simbolos, token_identificador.valor)
       THEN [ConError(self, Error("ERROR",
                 Mensaje(MsgNoDeclarada, token_identificador.valor,
                         token_identificador.linea),
                 token_identificador.linea))
             EXCEPT !.posicion = @ + 1]
       ELSE LET s1 == MarcarUsada(self, token_identificador.valor)
            IN IF s1.posicion + 1 < Len(s1.tokens)
                  /\ Tok(s1, s1.posicion + 1).tipo = "ASIGNACION"
               THEN AnalizarAsignacion([s1 EXCEPT !.posicion = @ + 1],
                                       token_identificador.valor)
               ELSE [s1 EXCEPT !.posicion = @ + 1]

\* Variant of ParentesisEncontrado: the search stops at the end of the keyword's line.
RECURSIVE ParentesisEnLaLinea(_, _)
ParentesisEnLaLinea(self, pos_temp) ==
    IF pos_temp < Len(self.tokens)
       /\ Tok(self, pos_temp).linea = Tok(self, self.posicion).linea
    THEN IF Tok(self, pos_temp).tipo = "PARENTESIS" /\ Tok(self, pos_temp).valor = << "(" >>
         THEN TRUE
         ELSE ParentesisEnLaLinea(self, pos_temp + 1)
    ELSE FALSE

\* the while loop of analizar_estructura_control from pos_temp on:
\* the value of parentesis_encontrado when it ends
RECURSIVE ParentesisEncontrado(_, _)
ParentesisEncontrado(self, pos_temp) ==
    IF pos_temp < Len(self.tokens)
    THEN IF Tok(self, pos_temp).tipo = "PARENTESIS" /\ Tok(self, pos_temp).valor = << "(" >>
         THEN TRUE
         ELSE ParentesisEncontrado(self, pos_temp + 1)
    ELSE FALSE

\* analizar_estructura_control(token_palabra)
AnalizarEstructuraControl(self, token_palabra) ==
    IF ~ParentesisEncontrado(self, self.posicion + 1)
    THEN ConError(self, Error("ERROR",
             Mensaje(MsgEsperabaParen, token_palabra.valor, token_palabra.linea),
             token_palabra.linea))
    ELSE self

\* ['if', 'while', 'for']
EstructurasControl == {PalabrasClave[1], PalabrasClave[3], PalabrasClave[4]}

\* Variant of AnalizarPalabraClave: the cursor is not moved after a keyword
\* other than if, while, for.
AnalizarPalabraClaveSinAvance(self) ==
    LET token_palabra == Tok(self, self.posicion)
    IN IF token_palabra.valor \in EstructurasControl
       THEN [AnalizarEstructuraControl(self, token_palabra) EXCEPT !.posicion = @ + 1]
       ELSE self

\* analizar_palabra_clave
AnalizarPalabraClave(self) ==
    LET token_palabra == Tok(self, self.posicion)
        s1 == IF token_palabra.valor \in EstructurasControl
              THEN AnalizarEstructuraControl(self, token_palabra)
              ELSE self
    IN [s1 EXCEPT !.posicion = @ + 1]

\* the else branch of the loop of analizar_tokens
AvanzarToken(self) == [self EXCEPT !.posicion = @ + 1]

\* one iteration of the loop of analizar_tokens
IterarTokens(self) ==
    LET token_actual == Tok(self, self.posicion)
    IN IF token_actual.tipo = "TIPO_DATO" THEN AnalizarDeclaracion(self)
       ELSE IF token_actual.tipo = "IDENTIFICADOR" THEN AnalizarIdentificador(self)
       ELSE IF token_actual.tipo = "PALABRA_CLAVE" THEN AnalizarPalabraClave(self)
       ELSE AvanzarToken(self)

\* analizar_tokens
RECURSIVE AnalizarTokens(_)
AnalizarTokens(self) ==
    IF self.posicion < Len(self.tokens)
    THEN AnalizarTokens(IterarTokens(self))
    ELSE self

\* verificar_variables_no_usadas: the loop over tabla_simbolos.values()
VerificarVariablesNoUsadas(self) ==
    LET NoUsada(v) == ~v.usada
        sel == SelectSeq(self.tabla_simbolos, NoUsada)
    IN [self EXCEPT !.advertencias =
           @ \o [i \in 1..Len(sel) |->
                   Error("ADVERTENCIA", Mensaje(MsgNoUsada, sel[i].nombre, 0),
                         sel[i].linea_declaracion)]]

\* Variant of VerificarVariablesNoInicializadas: the test of usada is left out.
VerificarNoInicializadasSinUso(self) ==
    LET SinInicializar(v) == ~v.inicializada
        sel == SelectSeq(self.tabla_simbolos, SinInicializar)
    IN [self EXCEPT !.advertencias =
           @ \o [i \in 1..Len(sel) |->
                   Error("ADVERTENCIA", Mensaje(MsgSinInicializar, sel[i].nombre, 0),
                         sel[i].linea_declaracion)]]

\* verificar_variables_no_inicializadas: the loop over tabla_simbolos.values()
VerificarVariablesNoInicializadas(self) ==
    LET SinInicializar(v) == v.usada /\ ~v.inicializada
        sel == SelectSeq(self.tabla_simbolos, SinInicializar)
    IN [self EXCEPT !.advertencias =
           @ \o [i \in 1..Len(sel) |->
                   Error("ADVERTENCIA", Mensaje(MsgSinInicializar, sel[i].nombre, 0),
                         sel[i].linea_declaracion)]]

\* Variant of LimpiarEstado: the list of errors is not cleared.
LimpiarEstadoSinErrores(self) ==
    [self EXCEPT !.tabla_simbolos = << >>, !.advertencias = << >>,
                 !.tokens = << >>, !.posicion = 0]

\* limpiar_estado
LimpiarEstado(self) ==
    [self EXCEPT !.tabla_simbolos = << >>, !.errores = << >>, !.advertencias = << >>,
                 !.tokens = << >>, !.posicion = 0]

\* Variant of AnalizarInicio: no error is recorded for an empty token list.
AnalizarInicioSinError(self, cod) ==
    [LimpiarEstado(self) EXCEPT !.tokens = Tokenizar(cod)]

\* analizar, up to the test of an empty token list: the state is cleared, the
\* code is tokenized and, with no token, the one error is recorded
AnalizarInicio(self, cod) ==
    LET s1 == [LimpiarEstado(self) EXCEPT !.tokens = Tokenizar(cod)]
    IN IF s1.tokens = << >>
       THEN ConError(s1, Error("ERROR", Mensaje(MsgSinTokens, << >>, 0), 1))
       ELSE s1

\* analizar, as one call: the context when it returns
Analizar(self, cod) ==
    LET s1 == AnalizarInicio(self, cod)
    IN IF s1.tokens = << >> THEN s1
       ELSE VerificarVariablesNoInicializadas(
                VerificarVariablesNoUsadas(AnalizarTokens(s1)))

----------------------------------------------------------------------------
(* Inputs: source texts *)

MaxPalabras == 3      \* words of a text built freely from Vocabulario
MaxPalabrasReuso == 2 \* the same, for calls that follow one another on one context
MaxCorridas == 2      \* calls of analizar on one context
MaxCaracteres == 4    \* characters of a line built from operator characters and x

cX     == << "x" >>
cY     == << "y" >>
cZ     == << "z" >>
cW     == << "w" >>
cIgual == << "=" >>
c5     == << "5" >>
c0     == << "0" >>
c2p5   == << "2", ".", "5" >>
cTrue  == Booleanos[1]
cCad   == << "\"", "s", "\"" >>
cIf    == PalabrasClave[1]
cElse  == PalabrasClave[2]
cAbre  == << "(" >>
cLlave == << "{" >>
cCierraLlave == << "}" >>
cMayor == << ">" >>
cMas   == << "+" >>
cPyc   == << ";" >>
cNl    == << "\n" >>
cCom   == << "/", "/" >>
cEsp   == << " " >>
cA     == << "a" >>
c1     == << "1" >>

\* the words one after another
RECURSIVE Cat(_)
Cat(ws) == IF ws = << >> THEN << >> ELSE Head(ws) \o Cat(Tail(ws))

\* ' '.join(ws)
RECURSIVE Unir(_)
Unir(ws) ==
    IF ws = << >> THEN << >>
    ELSE IF Len(ws) = 1 THEN ws[1]
    ELSE ws[1] \o cEsp \o Unir(Tail(ws))

Vocabulario ==
    {tInt, tString, cX, cY, cIgual, c5, c2p5, cCad, cIf, cElse, cAbre, cPyc, cNl, cCom}

VocabularioReuso == {tInt, cX, cIgual, c5, cCad, cNl}

\* texts of up to MaxPalabras words of Vocabulario, a blank between words
TextosLibres ==
    { Unir(ws) : ws \in UNION { [1..n -> Vocabulario] : n \in 0..MaxPalabras } }

\* value words for the token after '='
Valores == {c5, c2p5, cTrue, cCad, cX, cY, cZ, cMas}

\* T2 y / T x = v / x = v2 : every pair of declared types, every value kind
TextosCompatibilidad ==
    { Unir(<< t2, cY, cNl, t1, cX, cIgual, v1, cNl, cX, cIgual, v2 >>) :
        t2 \in {TiposDato[k] : k \in 1..Len(TiposDato)},
        t1 \in {TiposDato[k] : k \in 1..Len(TiposDato)},
        v1 \in Valores, v2 \in Valores }

EscenarioA == Cat(<< tInt, cEsp, cX, cEsp, cIgual, cEsp, c5, cPyc >>)
EscenarioB == Cat(<< tInt, cEsp, cX, cPyc, cEsp, tInt, cEsp, cX, cPyc >>)
EscenarioC == Cat(<< cY, cEsp, cIgual, cEsp, c5, cPyc >>)
EscenarioD == Cat(<< tInt, cEsp, cZ, cPyc, cEsp, tInt, cEsp, cW, cEsp, cIgual, cEsp, cZ, cPyc >>)
EscenarioE == Cat(<< cIf, cEsp, cX, cEsp, cMayor, cEsp, c0, cEsp, cLlave, cEsp, cCierraLlave >>)
EscenarioF == << >>

\* texts with no token: blank lines and comment lines
TextosSinTokens ==
    { EscenarioF, cNl, Cat(<< cEsp, cNl, cEsp >>),
      Cat(<< cCom, tInt, cEsp, cX >>),
      Cat(<< cNl, cEsp, cCom, cEsp, cX, cEsp, cIgual, cEsp, c5, cNl, cNl >>) }

\* a declared but unused symbol after a used, uninitialized one, and the reverse
TextosOrden ==
    { Unir(<< tInt, cX, cNl, tInt, cY, cNl, cX, cPyc >>),
      Unir(<< tInt, cX, cNl, tInt, cY, cNl, cY, cPyc >>),
      Unir(<< tInt, cX, cNl, tInt, cY, cNl, tInt, cZ, cNl, cZ, cX, cPyc >>),
      Unir(<< tInt, cX, cIgual, c5, cNl, tInt, cY, cNl, tInt, cZ, cNl, cX, cY, cPyc >>) }

\* two statements over the names x, y and the types int, string
Sentencias ==
    { << t, n >> : t \in {tInt, tString}, n \in {cX, cY} }
    \cup { << t, n, cIgual, v >> : t \in {tInt, tString}, n \in {cX, cY},
                                  v \in {c5, cCad, cX, cY} }
    \cup { << n, cIgual, v >> : n \in {cX, cY}, v \in {c5, cCad, cX, cY} }
    \cup { << n, cPyc >> : n \in {cX, cY} }

TextosDosSentencias ==
    { Unir(a \o << cNl >> \o b) : a \in Sentencias, b \in Sentencias }

\* a keyword among other tokens, a '(' before it, after it, on a later line, or nowhere
TextosControl ==
    { Unir(<< a, k, b, c >>) :
        k \in {PalabrasClave[i] : i \in 1..Len(PalabrasClave)},
        a \in {cAbre, cX, cNl}, b \in {cAbre, cX, cNl, cLlave}, c \in {cAbre, cX, cCierraLlave} }

\* a right-hand side of more than one token, and '=' as the last token
TextoUnoMasCadena == Unir(<< tInt, cA, cIgual, c1, cMas, cCad >>)
TextoXMasY ==
    Unir(<< tInt, cX, cNl, tInt, cY, cNl, tInt, cZ, cIgual, cX, cMas, cY >>)

TextosCompuestos ==
    { Unir(<< t, cX, cIgual, v, cMas, w >>) :
        t \in {tInt, tString}, v \in {c5, cCad, cX}, w \in {c5, cCad, cX, cY} }
    \cup { Unir(<< t, cX, cNl, cX, cIgual, v, cMas, w >>) :
        t \in {tInt, tString}, v \in {c5, cCad, cX}, w \in {c5, cCad, cX, cY} }
    \cup { Unir(<< t, cX, cNl, cX, cIgual >>) : t \in {tInt, tString} }
    \cup { TextoUnoMasCadena, TextoXMasY }

\* a type keyword followed by a type keyword
TextoIntIntX == Cat(<< tInt, cEsp, tInt, cEsp, cX, cPyc >>)

\* lines of operator characters, the identifier x and blanks
CaracteresOperadores == {"=", "<", ">", "!", "x", " "}

TextosOperadores ==
    UNION { [1..n -> CaracteresOperadores] : n \in 0..MaxCaracteres }

cIgualIgual == << "=", "=" >>
cMenorIgual == << "<", "=" >>
cDistinto   == << "!", "=" >>
cFlecha     == << "=", ">" >>

\* T x / x op 5 : a declared x followed by one or two operator characters
TextosComparacion ==
    { Unir(<< t, cX, cNl, cX, op, c5 >>) :
        t \in {tInt, tBool},
        op \in {cIgual, cIgualIgual, cMenorIgual, cDistinto, cFlecha} }

\* statements on three lines and more, and statements broken over lines
TextosLineas ==
    { Unir(<< tInt, cX, cNl, a, cNl, cX, cIgual, v >>) :
        a \in {cY, cIf, tInt, cElse, cIgual}, v \in {cCad, c5, cY} }
    \cup { Unir(<< tInt, cNl, cX, cNl, cIgual, cNl, v, cNl, b >>) :
        v \in {cCad, c5}, b \in {cY, tInt, cIf} }
    \cup { Unir(<< tInt, cX, cNl, t, cNl, cX, cNl, cIgual, cNl, v, cNl, b >>) :
        t \in {tInt, tString}, v \in {cCad, c5}, b \in {cY, cX, cIf} }
    \cup { Unir(<< cX, cNl, cX, cIgual, cNl, cIf, cNl, tInt, cX, cIgual >>) }

\* texts with characters outside ASCII: a digit and a letter that \d and \w
\* match, blanks that strip() removes
cTres == << CaracterDe(1635) >>        \* U+0663, ARABIC-INDIC DIGIT THREE
cAnio == << "a", "ñ", "o" >>
cCafe == << "c", "a", "f", "é" >>
cVt == << "" >>
cNbsp == << " " >>
cEm == << CaracterDe(8195) >>          \* U+2003, EM SPACE

TextosUnicode ==
    { Unir(<< tInt, cX, cIgual, cTres >>), cAnio, Unir(<< cCafe, cIgual, c5 >>),
      Cat(<< cVt, cCom >>), Cat(<< cNbsp, cX >>),
      Cat(<< cEm, Unir(<< tInt, cAnio, cIgual, c5 >>) >>),
      Unir(<< tInt, Cat(<< cX, cTres >>), cIgual, Cat(<< c5, cTres >>) >>) }

Escenarios ==
    { EscenarioA, EscenarioB, EscenarioC, EscenarioD, EscenarioE } \cup TextosSinTokens

\* the texts given to calls that follow one another on one context
EntradasReuso ==
    { Unir(ws) : ws \in UNION { [1..n -> VocabularioReuso] : n \in 0..MaxPalabrasReuso } }
    \cup Escenarios \cup TextosOrden
    \cup { Unir(<< t1, cX, cIgual, v1, cNl, cX, cIgual, cY >>) :
             t1 \in {tInt, tBool}, v1 \in Valores }

Entradas ==
    TextosLibres \cup TextosCompatibilidad \cup TextosDosSentencias \cup TextosControl
    \cup Escenarios \cup TextosOrden \cup TextosCompuestos \cup {TextoIntIntX}
    \cup TextosOperadores \cup TextosComparacion \cup TextosLineas \cup TextosUnicode

----------------------------------------------------------------------------
(* The state machine: one call of analizar after another on one context *)

\* the callers of the context when more than one shares it
Hilos == {1, 2}

Self ==
    [tokens |-> tokens, posicion |-> posicion, tabla_simbolos |-> tabla_simbolos,
     errores |-> errores, advertencias |-> advertencias]

Poner(self) ==
    /\ tokens' = self.tokens
    /\ posicion' = self.posicion
    /\ tabla_simbolos' = self.tabla_simbolos
    /\ errores' = self.errores
    /\ advertencias' = self.advertencias

\* The variables of one caller of analizar: where it stands and what its frames
\* hold. `estado` is "reposo" before its first call, "en_curso" inside analizar,
\* "retorno" when analizar has returned a report (visto) and "excepcion" when
\* the call ended with an exception; pc is the line of main.py it is about to run,
\* or with `dentro` the line it stands inside, after a call the line makes and
\* before the rest of the line; linea_leida is what line 226 has read by then.
\* `ultimo` says that the caller ran the last step, `esperas` counts the times
\* it was made to wait inside analizar while the other caller ran.
NoToken == Token("", << >>, 0, 0)

\* a reference to a Variable object: the object the table holds under `nombre`
\* (suelta empty), or an object that is not, or no longer, in the table (suelta
\* holds it)
NoVariable == [nombre |-> << >>, suelta |-> << >>]

\* the iterator of a for loop: the index of the next item and, for a dict, the
\* size the dict had when the iterator was made
NoIter == [pos |-> -1, usado |-> -1]

NoExcepcion == [tipo |-> "", linea |-> 0]

\* reporte = [] of generar_reporte, as the parts the report is made of
ReporteNuevo ==
    [con_tabla |-> FALSE, filas |-> << >>,
     con_errores |-> FALSE, titulo_errores |-> 0, lineas_errores |-> << >>,
     con_advertencias |-> FALSE, titulo_advertencias |-> 0, lineas_advertencias |-> << >>,
     variables |-> 0, errores |-> 0, advertencias |-> 0, tokens |-> 0, exito |-> FALSE]

EnReposo ==
    [estado |-> "reposo", pc |-> 0, codigo |-> << >>, solapado |-> FALSE,
     visto |-> << >>, excepcion |-> NoExcepcion, ultimo |-> FALSE, esperas |-> 0,
     token |-> NoToken, token_nombre |-> NoToken, token_valor |-> NoToken,
     variable |-> NoVariable, desde |-> 0, pos_temp |-> 0, iter |-> NoIter,
     estado_fila |-> FALSE, reporte |-> ReporteNuevo,
     dentro |-> FALSE, linea_leida |-> 0]

Init ==
    /\ pc = "reposo"
    /\ codigo = << >>
    /\ corridas = 0
    /\ tokens = ContextoNuevo.tokens
    /\ posicion = ContextoNuevo.posicion
    /\ tabla_simbolos = ContextoNuevo.tabla_simbolos
    /\ errores = ContextoNuevo.errores
    /\ advertencias = ContextoNuevo.advertencias
    /\ hilos = [h \in Hilos |-> EnReposo]

\* analizar(cod) is called with a text of `entradas`: limpiar_estado, tokenizar,
\* the test of no tokens
LlamarCon(entradas) ==
    /\ pc \in {"reposo", "retorno"}
    /\ corridas < MaxCorridas
    /\ \E cod \in entradas :
         LET s == AnalizarInicio(Self, cod)
         IN /\ Poner(s)
            /\ codigo' = cod
            /\ pc' = IF s.tokens = << >> THEN "retorno" ELSE "analizar_tokens"
    /\ corridas' = corridas + 1
    /\ UNCHANGED hilos

\* the first call of analizar on a new context
LlamarAnalizar ==
    /\ pc = "reposo"
    /\ LlamarCon(Entradas)

\* a call of analizar on a context, new or used by earlier calls
LlamarOtraVez == LlamarCon(EntradasReuso)

EnBucle == pc = "analizar_tokens" /\ posicion < Len(tokens)

\* iteration of analizar_tokens on a TIPO_DATO token
PasoDeclaracion ==
    /\ EnBucle
    /\ Tok(Self, posicion).tipo = "TIPO_DATO"
    /\ Poner(AnalizarDeclaracion(Self))
    /\ UNCHANGED <<pc, codigo, corridas, hilos>>

\* iteration of analizar_tokens on an IDENTIFICADOR token
PasoIdentificador ==
    /\ EnBucle
    /\ Tok(Self, posicion).tipo = "IDENTIFICADOR"
    /\ Poner(AnalizarIdentificador(Self))
    /\ UNCHANGED <<pc, codigo, corridas, hilos>>

\* iteration of analizar_tokens on a PALABRA_CLAVE token
PasoPalabraClave ==
    /\ EnBucle
    /\ Tok(Self, posicion).tipo = "PALABRA_CLAVE"
    /\ Poner(AnalizarPalabraClave(Self))
    /\ UNCHANGED <<pc, codigo, corridas, hilos>>

\* iteration of analizar_tokens on any other token
PasoOtro ==
    /\ EnBucle
    /\ Tok(Self, posicion).tipo \notin {"TIPO_DATO", "IDENTIFICADOR", "PALABRA_CLAVE"}
    /\ Poner(AvanzarToken(Self))
    /\ UNCHANGED <<pc, codigo, corridas, hilos>>

\* the loop has ended: verificar_variables_no_usadas
PasoNoUsadas ==
    /\ pc = "analizar_tokens"
    /\ posicion >= Len(tokens)
    /\ Poner(VerificarVariablesNoUsadas(Self))
    /\ pc' = "verificar_no_inicializadas"
    /\ UNCHANGED <<codigo, corridas, hilos>>

\* verificar_variables_no_inicializadas, then analizar returns
PasoNoInicializadas ==
    /\ pc = "verificar_no_inicializadas"
    /\ Poner(VerificarVariablesNoInicializadas(Self))
    /\ pc' = "retorno"
    /\ UNCHANGED <<codigo, corridas, hilos>>

Next ==
    \/ LlamarAnalizar
    \/ PasoDeclaracion
    \/ PasoIdentificador
    \/ PasoPalabraClave
    \/ PasoOtro
    \/ PasoNoUsadas
    \/ PasoNoInicializadas

Spec == Init /\ [][Next]_vars

\* One iteration of the loop or one post-scan check. analizar is synchronous: once
\* called it runs on to its return, so a step that can be taken is taken.
Pasos ==
    \/ PasoDeclaracion
    \/ PasoIdentificador
    \/ PasoPalabraClave
    \/ PasoOtro
    \/ PasoNoUsadas
    \/ PasoNoInicializadas

SpecJusto == Init /\ [][Next]_vars /\ WF_vars(Pasos)

\* calls of analizar one after another on the same context
NextReuso ==
    \/ LlamarOtraVez
    \/ PasoDeclaracion
    \/ PasoIdentificador
    \/ PasoPalabraClave
    \/ PasoOtro
    \/ PasoNoUsadas
    \/ PasoNoInicializadas

SpecReuso == Init /\ [][NextReuso]_vars

----------------------------------------------------------------------------
(* Vocabulary of the properties *)

\* the loop of analizar_tokens is about to dispatch a token of this kind
Despacha(tipo) == EnBucle /\ Tok(Self, posicion).tipo = tipo

\* the step is one iteration of the loop, or a post-scan check, of the same call
MismoAnalisis == corridas' = corridas

Nombres(tabla) == [i \in 1..Len(tabla) |-> tabla[i].nombre]

AdvNoUsada(v) ==
    Error("ADVERTENCIA", Mensaje(MsgNoUsada, v.nombre, 0), v.linea_declaracion)

AdvSinInicializar(v) ==
    Error("ADVERTENCIA", Mensaje(MsgSinInicializar, v.nombre, 0), v.linea_declaracion)

\* number of places of the sequence that hold e
Veces(sec, e) == Cardinality({i \in 1..Len(sec) : sec[i] = e})

\* the compatibility table of the specification: value token against target type,
\* the identifiers looked up in tabla
Ensanche ==
    { <<tInt, tInt>>, <<tInt, tFloat>>, <<tInt, tDouble>>,
      <<tFloat, tFloat>>, <<tFloat, tDouble>>, <<tDouble, tDouble>>,
      <<tBool, tBool>>, <<tChar, tChar>>, <<tString, tString>> }

CompatibleSegunTabla(tabla, destino, valor) ==
    \/ /\ valor.tipo = "NUMERO"
       /\ "." \in {valor.valor[k] : k \in 1..Len(valor.valor)}
       /\ destino \in {tFloat, tDouble}
    \/ /\ valor.tipo = "NUMERO"
       /\ "." \notin {valor.valor[k] : k \in 1..Len(valor.valor)}
       /\ destino \in {tInt, tFloat, tDouble}
    \/ valor.tipo = "BOOLEANO" /\ destino = tBool
    \/ valor.tipo = "CADENA" /\ destino = tString
    \/ /\ valor.tipo = "IDENTIFICADOR"
       /\ \E i \in 1..Len(tabla) :
            tabla[i].nombre = valor.valor /\ <<destino, tabla[i].tipo>> \in Ensanche

\* The step is a declaration `T n = v` of a new name n with a value token v
InicializaConValor ==
    /\ Despacha("TIPO_DATO")
    /\ posicion + 3 < Len(tokens)
    /\ Tok(Self, posicion + 1).tipo = "IDENTIFICADOR"
    /\ ~EnTabla(tabla_simbolos, Tok(Self, posicion + 1).valor)
    /\ Tok(Self, posicion + 2).tipo = "ASIGNACION"

\* The step is an assignment `n = v` to a declared name n with a value token v
AsignaConValor ==
    /\ Despacha("IDENTIFICADOR")
    /\ posicion + 2 < Len(tokens)
    /\ EnTabla(tabla_simbolos, Tok(Self, posicion).valor)
    /\ Tok(Self, posicion + 1).tipo = "ASIGNACION"

----------------------------------------------------------------------------
(* C1 *)

\* C1: every Identifier token that a step of the loop passes over and that names
\* a declared variable leaves that Symbol with used = true, the value token after
\* '=' included; and `int z; int w = z;` ends with z used and not initialized,
\* w initialized, and the warnings 'z usada sin inicializar' and
\* 'w declarada pero no usada'.
C1_TodoIdentificadorMarcaUsada ==
    [][ /\ EnBucle =>
            \A i \in posicion..(posicion' - 1) :
                ( /\ Tok(Self, i).tipo = "IDENTIFICADOR"
                  /\ EnTabla(tabla_simbolos, Tok(Self, i).valor) )
                => Simbolo(tabla_simbolos', Tok(Self, i).valor).usada
        /\ (pc' = "retorno" /\ codigo' = EscenarioD) =>
            /\ EnTabla(tabla_simbolos', cZ) /\ EnTabla(tabla_simbolos', cW)
            /\ Simbolo(tabla_simbolos', cZ).usada
            /\ ~Simbolo(tabla_simbolos', cZ).inicializada
            /\ Simbolo(tabla_simbolos', cW).inicializada
            /\ Veces(advertencias', AdvSinInicializar(Simbolo(tabla_simbolos', cZ))) = 1
            /\ Veces(advertencias', AdvNoUsada(Simbolo(tabla_simbolos', cW))) = 1
      ]_vars

----------------------------------------------------------------------------
(* C2 *)

\* C2: a name has at most one entry of the Symbol Table in every state; a second
\* declaration of a declared name appends the 'ya declarada' Error and leaves the
\* table as it was (no entry added, type and declaration line of the first
\* declaration kept); `int x; int x;` ends with exactly one entry for x.
C2_UnaEntradaPorNombre ==
    [][ /\ \A i, j \in 1..Len(tabla_simbolos') :
            tabla_simbolos'[i].nombre = tabla_simbolos'[j].nombre => i = j
        /\ ( /\ Despacha("TIPO_DATO")
             /\ posicion + 1 < Len(tokens)
             /\ Tok(Self, posicion + 1).tipo = "IDENTIFICADOR"
             /\ EnTabla(tabla_simbolos, Tok(Self, posicion + 1).valor) )
           => /\ errores' = Append(errores,
                     Error("ERROR",
                           Mensaje(MsgYaDeclarada, Tok(Self, posicion + 1).valor,
                                   Tok(Self, posicion + 1).linea),
                           Tok(Self, posicion + 1).linea))
              /\ Len(tabla_simbolos') = Len(tabla_simbolos)
              /\ \A i \in 1..Len(tabla_simbolos) :
                    /\ tabla_simbolos'[i].nombre = tabla_simbolos[i].nombre
                    /\ tabla_simbolos'[i].tipo = tabla_simbolos[i].tipo
                    /\ tabla_simbolos'[i].linea_declaracion
                           = tabla_simbolos[i].linea_declaracion
        /\ (pc' = "retorno" /\ codigo' = EscenarioB) =>
              Cardinality({i \in 1..Len(tabla_simbolos') :
                              tabla_simbolos'[i].nombre = cX}) = 1
      ]_vars

\* a second declaration of x, with another type and on another line, was rejected
C2_Testigo ==
    /\ pc = "retorno"
    /\ codigo = Unir(<< tInt, cX, cNl, tString, cX >>)
    /\ Len(tabla_simbolos) = 1
    /\ tabla_simbolos[1].tipo = tInt
    /\ tabla_simbolos[1].linea_declaracion = 1
    /\ \E k \in 1..Len(errores) : errores[k].mensaje.formato = MsgYaDeclarada

----------------------------------------------------------------------------
(* C3 *)

\* C3: for every declared target type and every kind of value token after '=',
\* the initializer and the assignment append the 'Tipo incompatible' Error exactly
\* when the pair is not compatible under the table of the specification, and set
\* inicializada exactly when it is compatible.
C3_TablaDeCompatibilidad ==
    [][ /\ InicializaConValor =>
            LET n == Tok(Self, posicion + 1)
                v == Tok(Self, posicion + 3)
                ok == CompatibleSegunTabla(tabla_simbolos', Tok(Self, posicion).valor, v)
                e == Error("ERROR", Mensaje(MsgIncompatibleInic, n.valor, n.linea), n.linea)
            IN /\ Simbolo(tabla_simbolos', n.valor).inicializada = ok
               /\ errores' = IF ok THEN errores ELSE Append(errores, e)
        /\ AsignaConValor =>
            LET n == Tok(Self, posicion)
                v == Tok(Self, posicion + 2)
                antes == Simbolo(tabla_simbolos, n.valor)
                ok == CompatibleSegunTabla(tabla_simbolos, antes.tipo, v)
                e == Error("ERROR", Mensaje(MsgIncompatibleAsig, n.valor, v.linea), v.linea)
            IN /\ Simbolo(tabla_simbolos', n.valor).inicializada
                      = (ok \/ antes.inicializada)
               /\ errores' = IF ok THEN errores ELSE Append(errores, e)
      ]_vars

\* double y / int x = y / x = "s" : the initializer accepted an identifier of a
\* wider type, the assignment refused a string
C3_Testigo ==
    /\ pc = "retorno"
    /\ codigo = Unir(<< tDouble, cY, cNl, tInt, cX, cIgual, cY, cNl, cX, cIgual, cCad >>)
    /\ Simbolo(tabla_simbolos, cX).inicializada
    /\ Len(errores) = 1
    /\ errores[1].mensaje.formato = MsgIncompatibleAsig

----------------------------------------------------------------------------
(* C4 *)

\* what analizar hands to its caller: Symbol Table, Errors, Warnings, token count
Resultado(self) ==
    [tabla_simbolos |-> self.tabla_simbolos, errores |-> self.errores,
     advertencias |-> self.advertencias, n_tokens |-> Len(self.tokens)]

\* C4: when a call of analizar returns on a context used by earlier calls, its
\* Symbol Table, Error list, Warning list and token count are those of the same
\* text analysed on a new context.
C4_ResultadoComoEnContextoNuevo ==
    pc = "retorno" => Resultado(Self) = Resultado(Analizar(ContextoNuevo, codigo))

\* the second call on a context has returned, with symbols, errors and warnings
C4_Testigo ==
    /\ pc = "retorno"
    /\ corridas = 2
    /\ codigo = Unir(<< tInt, cX, cIgual, cCad, cNl, cX, cIgual, cY >>)
    /\ Len(tabla_simbolos) = 1
    /\ Len(errores) = 2
    /\ Len(advertencias) = 1

----------------------------------------------------------------------------
(* C5 *)

\* the place in the table of the symbol a warning is about
LugarDe(tabla, adv) == Indice(tabla, adv.mensaje.valor)

\* C5 as stated: the table grows only at its end, and in the final Warning list a
\* warning that precedes another is about a symbol declared earlier.
C5_AdvertenciasEnOrdenDeDeclaracion ==
    [][ /\ (MismoAnalisis /\ tabla_simbolos' # tabla_simbolos) =>
            \/ Nombres(tabla_simbolos') = Nombres(tabla_simbolos)
            \/ /\ Despacha("TIPO_DATO")
               /\ Nombres(tabla_simbolos')
                     = Append(Nombres(tabla_simbolos), Tok(Self, posicion + 1).valor)
        /\ (pc' = "retorno" /\ tokens' # << >>) =>
            \A i, j \in 1..Len(advertencias') :
                i < j => LugarDe(tabla_simbolos', advertencias'[i])
                           < LugarDe(tabla_simbolos', advertencias'[j])
      ]_vars

\* C5 amended: the table grows only at its end, by the name a declaration step
\* declares; in the final Warning list every 'declarada pero no usada' warning
\* precedes every 'usada sin inicializar' warning, and two warnings of the same
\* kind stand in the order of declaration of their symbols.
C5_AdvertenciasPorClaseEnOrden ==
    [][ /\ (MismoAnalisis /\ tabla_simbolos' # tabla_simbolos) =>
            \/ Nombres(tabla_simbolos') = Nombres(tabla_simbolos)
            \/ /\ Despacha("TIPO_DATO")
               /\ Nombres(tabla_simbolos')
                     = Append(Nombres(tabla_simbolos), Tok(Self, posicion + 1).valor)
        /\ (pc' = "retorno" /\ tokens' # << >>) =>
            \A i, j \in 1..Len(advertencias') :
                i < j =>
                  LET a == advertencias'[i]
                      b == advertencias'[j]
                  IN /\ ~(a.mensaje.formato = MsgSinInicializar
                           /\ b.mensaje.formato = MsgNoUsada)
                     /\ a.mensaje.formato = b.mensaje.formato
                          => LugarDe(tabla_simbolos', a) < LugarDe(tabla_simbolos', b)
      ]_vars

\* int x / int y / int z / z x ; : y unused, x and z used and never initialized
C5_Testigo ==
    /\ pc = "retorno"
    /\ Nombres(tabla_simbolos) = << cX, cY, cZ >>
    /\ Len(advertencias) = 3
    /\ advertencias[1] = AdvNoUsada(tabla_simbolos[2])
    /\ advertencias[2] = AdvSinInicializar(tabla_simbolos[1])
    /\ advertencias[3] = AdvSinInicializar(tabla_simbolos[3])

----------------------------------------------------------------------------
(* C6 *)

\* C6: when analizar returns after the loop, each Symbol has one 'declarada pero
\* no usada' warning at its declaration line iff it is not used, one 'usada sin
\* inicializar' warning at its declaration line iff it is used and not
\* initialized, never both; there are no other warnings, so no more warnings
\* than Symbols; and `int x = 5;` ends with x: int, line 1, initialized, not
\* used, no Error and the one warning 'x declarada pero no usada'.
C6_AdvertenciasSegunBanderas ==
    (pc = "retorno" /\ tokens # << >>) =>
        /\ \A i \in 1..Len(tabla_simbolos) :
             LET v == tabla_simbolos[i]
             IN /\ Veces(advertencias, AdvNoUsada(v)) = (IF ~v.usada THEN 1 ELSE 0)
                /\ Veces(advertencias, AdvSinInicializar(v))
                      = (IF v.usada /\ ~v.inicializada THEN 1 ELSE 0)
                /\ Veces(advertencias, AdvNoUsada(v))
                      + Veces(advertencias, AdvSinInicializar(v)) <= 1
        /\ \A k \in 1..Len(advertencias) :
             \E i \in 1..Len(tabla_simbolos) :
                advertencias[k] \in {AdvNoUsada(tabla_simbolos[i]),
                                     AdvSinInicializar(tabla_simbolos[i])}
        /\ Len(advertencias) <= Len(tabla_simbolos)
        /\ codigo = EscenarioA =>
             /\ tabla_simbolos = << [nombre |-> cX, tipo |-> tInt, linea_declaracion |-> 1,
                                     inicializada |-> TRUE, usada |-> FALSE] >>
             /\ errores = << >>
             /\ advertencias =
                  << Error("ADVERTENCIA", Mensaje(MsgNoUsada, cX, 0), 1) >>

\* a run ended with a symbol of each kind: unused, used and not initialized,
\* used and initialized
C6_Testigo ==
    /\ pc = "retorno"
    /\ \E i, j, k \in 1..Len(tabla_simbolos) :
         /\ ~tabla_simbolos[i].usada
         /\ tabla_simbolos[j].usada /\ ~tabla_simbolos[j].inicializada
         /\ tabla_simbolos[k].usada /\ tabla_simbolos[k].inicializada
    /\ Len(advertencias) = 2

----------------------------------------------------------------------------
(* C7 *)

\* every line of the text is blank or a // comment line
SoloBlancosYComentarios(cod) ==
    LET lineas == Split(cod, 1, << >>)
    IN \A k \in 1..Len(lineas) :
          \/ \A c \in 1..Len(lineas[k]) : lineas[k][c] \in Blancos
          \/ EmpiezaComentario(QuitarIzq(lineas[k]))

\* C7: a text of blank and comment lines only gives no token; a call that finds
\* no token returns at once with the one Error 'No se encontraron tokens validos'
\* at line 1, an empty Symbol Table and no Warning, without the loop or the
\* post-scan checks; a call that finds tokens enters the loop, and analizar
\* returns in no other way than that first one or after both post-scan checks.
C7_SinTokens ==
    [][ /\ corridas' = corridas + 1 =>
            /\ SoloBlancosYComentarios(codigo') => tokens' = << >>
            /\ tokens' = << >> =>
                 /\ pc' = "retorno"
                 /\ errores' = << Error("ERROR", Mensaje(MsgSinTokens, << >>, 0), 1) >>
                 /\ tabla_simbolos' = << >>
                 /\ advertencias' = << >>
            /\ tokens' # << >> => pc' = "analizar_tokens" /\ errores' = << >>
        /\ (MismoAnalisis /\ pc' = "retorno") =>
            /\ pc = "verificar_no_inicializadas"
            /\ tokens # << >>
        /\ (MismoAnalisis /\ pc' = "verificar_no_inicializadas") =>
            /\ pc = "analizar_tokens"
            /\ posicion = Len(tokens)
      ]_vars

\* a text of blank and comment lines was analysed on a context that an earlier
\* call left with symbols
C7_Testigo ==
    /\ pc = "retorno"
    /\ corridas = 2
    /\ codigo = Cat(<< cNl, cEsp, cCom, cEsp, cX, cEsp, cIgual, cEsp, c5, cNl, cNl >>)
    /\ tokens = << >>
    /\ Len(errores) = 1

----------------------------------------------------------------------------
(* C8 *)

\* C8: on `if`, `while` or `for` at index i the step appends the "Se esperaba '('"
\* Error at the keyword's line iff no '(' token stands at an index greater than i,
\* on whatever line; on any keyword it moves the cursor by one and leaves the
\* Symbol Table as it was; on the other keywords it appends no Error.
C8_EstructuraDeControl ==
    [][ Despacha("PALABRA_CLAVE") =>
          LET k == Tok(Self, posicion)
              hayParentesis ==
                  \E j \in (posicion + 1)..(Len(tokens) - 1) :
                      Tok(Self, j).tipo = "PARENTESIS" /\ Tok(Self, j).valor = cAbre
              e == Error("ERROR", Mensaje(MsgEsperabaParen, k.valor, k.linea), k.linea)
          IN /\ posicion' = posicion + 1
             /\ tabla_simbolos' = tabla_simbolos
             /\ errores' = IF k.valor \in {PalabrasClave[1], PalabrasClave[3], PalabrasClave[4]}
                              /\ ~hayParentesis
                           THEN Append(errores, e)
                           ELSE errores
      ]_vars

\* `while` on one line and the only '(' on the next: no Error about it
C8_Testigo ==
    /\ pc = "retorno"
    /\ codigo = Unir(<< cX, PalabrasClave[3], cNl, cAbre >>)
    /\ Len(tokens) = 3
    /\ tokens[3].linea = 2
    /\ \A k \in 1..Len(errores) : errores[k].mensaje.formato # MsgEsperabaParen

----------------------------------------------------------------------------
(* C9 *)

\* C9: on an Identifier whose name is not in the Symbol Table the step appends the
\* one Error 'no declarada' at the token's line, leaves the Symbol Table as it
\* was and moves the cursor by exactly one, also when '=' follows; only a step on
\* a type keyword adds a Symbol; `y = 5;` ends with that single Error and an
\* empty Symbol Table.
C9_IdentificadorNoDeclarado ==
    [][ /\ ( Despacha("IDENTIFICADOR")
             /\ ~EnTabla(tabla_simbolos, Tok(Self, posicion).valor) ) =>
            LET t == Tok(Self, posicion)
            IN /\ errores' = Append(errores,
                     Error("ERROR", Mensaje(MsgNoDeclarada, t.valor, t.linea), t.linea))
               /\ tabla_simbolos' = tabla_simbolos
               /\ posicion' = posicion + 1
        /\ (MismoAnalisis /\ ~Despacha("TIPO_DATO")) =>
            Nombres(tabla_simbolos') = Nombres(tabla_simbolos)
        /\ (pc' = "retorno" /\ codigo' = EscenarioC) =>
            /\ errores' = << Error("ERROR", Mensaje(MsgNoDeclarada, cY, 1), 1) >>
            /\ tabla_simbolos' = << >>
      ]_vars

\* `y = 5;` was analysed
C9_Testigo ==
    /\ pc = "retorno"
    /\ codigo = EscenarioC
    /\ Len(tokens) = 4
    /\ Len(errores) = 1

----------------------------------------------------------------------------
(* C10 *)

\* C10: in the steps of one call a Symbol that is initialized stays initialized, a
\* Symbol that is used stays used, and a Symbol becomes initialized only in a
\* step whose initializer or assignment found its value token compatible with
\* the Symbol's declared type.
C10_BanderasMonotonas ==
    [][ MismoAnalisis =>
          /\ Len(tabla_simbolos') >= Len(tabla_simbolos)
          /\ \A i \in 1..Len(tabla_simbolos) :
                /\ tabla_simbolos'[i].nombre = tabla_simbolos[i].nombre
                /\ tabla_simbolos[i].inicializada => tabla_simbolos'[i].inicializada
                /\ tabla_simbolos[i].usada => tabla_simbolos'[i].usada
          /\ \A i \in 1..Len(tabla_simbolos') :
                ( /\ tabla_simbolos'[i].inicializada
                  /\ ~(i <= Len(tabla_simbolos) /\ tabla_simbolos[i].inicializada) )
                =>
                \/ /\ InicializaConValor
                   /\ tabla_simbolos'[i].nombre = Tok(Self, posicion + 1).valor
                   /\ CompatibleSegunTabla(tabla_simbolos', tabla_simbolos'[i].tipo,
                                           Tok(Self, posicion + 3))
                \/ /\ AsignaConValor
                   /\ tabla_simbolos'[i].nombre = Tok(Self, posicion).valor
                   /\ CompatibleSegunTabla(tabla_simbolos, tabla_simbolos'[i].tipo,
                                           Tok(Self, posicion + 2))
      ]_vars

\* int y / int x = "s" / x = 5 : x, refused by its initializer, became initialized
\* by the later assignment
C10_Testigo ==
    /\ pc = "retorno"
    /\ codigo = Unir(<< tInt, cY, cNl, tInt, cX, cIgual, cCad, cNl, cX, cIgual, c5 >>)
    /\ Simbolo(tabla_simbolos, cX).inicializada
    /\ Simbolo(tabla_simbolos, cX).usada
    /\ Len(errores) = 1
    /\ errores[1].mensaje.formato = MsgIncompatibleInic

----------------------------------------------------------------------------
(* C11 *)

\* number of handlers the loop can route the token at the cursor to
HandlersPosibles ==
    Cardinality({ h \in {"declaracion", "identificador", "palabra_clave", "otro"} :
                    \/ h = "declaracion" /\ ENABLED PasoDeclaracion
                    \/ h = "identificador" /\ ENABLED PasoIdentificador
                    \/ h = "palabra_clave" /\ ENABLED PasoPalabraClave
                    \/ h = "otro" /\ ENABLED PasoOtro })

\* C11: each iteration of the loop has exactly one handler to go to and leaves the
\* cursor strictly greater and at most len(tokens), the tokens unchanged; the
\* loop is left only with the cursor at len(tokens); and every call that enters
\* the loop goes on to the post-scan checks and returns, whatever errors it
\* recorded.
C11_BucleTermina ==
    /\ [][ /\ EnBucle =>
               /\ HandlersPosibles = 1
               /\ posicion' > posicion
               /\ posicion' <= Len(tokens)
               /\ tokens' = tokens
               /\ pc' = "analizar_tokens"
           /\ (pc = "analizar_tokens" /\ ~EnBucle) =>
               /\ posicion = Len(tokens)
               /\ pc' = "verificar_no_inicializadas"
           /\ posicion' \in 0..Len(tokens')
         ]_vars
    /\ (pc = "analizar_tokens") ~> (pc = "verificar_no_inicializadas")
    /\ (pc = "verificar_no_inicializadas") ~> (pc = "retorno")

\* a call that recorded an error at every token of its three went through the
\* loop and the post-scan checks and returned
C11_Testigo ==
    /\ pc = "retorno"
    /\ Len(tokens) = 3
    /\ posicion = 3
    /\ Len(errores) = 3

----------------------------------------------------------------------------
(* C12 *)

\* The declaration `T n` whose name token is at the cursor has just been rejected:
\* the token before the cursor is a type keyword and the last Error is the
\* 'ya declarada' Error of the token at the cursor. (A type keyword read as the
\* value after '=' leaves a 'Tipo incompatible' Error as the last one instead.)
RechazadaAqui ==
    /\ Despacha("IDENTIFICADOR")
    /\ posicion >= 1
    /\ Tok(Self, posicion - 1).tipo = "TIPO_DATO"
    /\ errores # << >>
    /\ errores[Len(errores)] =
          Error("ERROR",
                Mensaje(MsgYaDeclarada, Tok(Self, posicion).valor, Tok(Self, posicion).linea),
                Tok(Self, posicion).linea)

\* C12: the tokens of a rejected second declaration `T x` or `T x = v` leave the
\* Symbol x as it was and add no Error beyond 'ya declarada': the step of the
\* loop on the name token of the rejected declaration changes neither the Symbol
\* Table nor the Error list; and `int x; int x;` ends with x.usada false and the
\* one warning 'x declarada pero no usada'.
C12_DuplicadaDescartada ==
    [][ /\ (MismoAnalisis /\ RechazadaAqui) =>
              /\ tabla_simbolos' = tabla_simbolos
              /\ errores' = errores
        /\ (pc' = "retorno" /\ codigo' = EscenarioB) =>
              /\ EnTabla(tabla_simbolos', cX)
              /\ ~Simbolo(tabla_simbolos', cX).usada
              /\ advertencias' = << AdvNoUsada(Simbolo(tabla_simbolos', cX)) >>
      ]_vars

\* what the code does with `int x; int x;`: the name of the rejected declaration
\* is dispatched as an Identifier, so x ends used and the warning is
\* 'x usada sin inicializar'
C12_DuplicadaMarcaUsada ==
    (pc = "retorno" /\ codigo = EscenarioB) =>
        /\ Len(tabla_simbolos) = 1
        /\ Simbolo(tabla_simbolos, cX).usada
        /\ ~Simbolo(tabla_simbolos, cX).inicializada
        /\ Len(errores) = 1
        /\ advertencias = << AdvSinInicializar(Simbolo(tabla_simbolos, cX)) >>

----------------------------------------------------------------------------
(* C13 *)

\* the context with the tokens after index `ultimo` cut off and every flag of the
\* table cleared
SoloHasta(self, ultimo) ==
    [self EXCEPT
        !.tokens = SubSeq(@, 1, ultimo + 1),
        !.tabla_simbolos =
            [i \in 1..Len(@) |-> [@[i] EXCEPT !.inicializada = FALSE, !.usada = FALSE]]]

\* C13: with a value token after '=', the initializer and the assignment leave the
\* cursor two places after the '=' and append the Errors, and set inicializada,
\* that the same handler yields when the value token is the last token and no
\* flag of the table is set (only the target type, the value token and the
\* declared types count); the tokens after the value token go through the loop
\* (`int a = 1 + "s"` ends with no Error; in `int z = x + y` the token y is
\* dispatched as an Identifier and marks y used). With '=' as the last token one
\* 'incompleta' Error is appended and inicializada is not set.
C13_UnSoloTokenTrasIgual ==
    [][ /\ InicializaConValor =>
            LET n == Tok(Self, posicion + 1).valor
                r == AnalizarDeclaracion(SoloHasta(Self, posicion + 3))
            IN /\ posicion' = (posicion + 2) + 2
               /\ errores' = r.errores
               /\ Len(errores') <= Len(errores) + 1
               /\ Simbolo(tabla_simbolos', n).inicializada
                     = Simbolo(r.tabla_simbolos, n).inicializada
               /\ Simbolo(tabla_simbolos', n).inicializada = (errores' = errores)
        /\ AsignaConValor =>
            LET n == Tok(Self, posicion).valor
                r == AnalizarIdentificador(SoloHasta(Self, posicion + 2))
            IN /\ posicion' = (posicion + 1) + 2
               /\ errores' = r.errores
               /\ Len(errores') <= Len(errores) + 1
               /\ Simbolo(tabla_simbolos', n).inicializada
                     = ( Simbolo(r.tabla_simbolos, n).inicializada
                         \/ Simbolo(tabla_simbolos, n).inicializada )
               /\ Simbolo(r.tabla_simbolos, n).inicializada = (errores' = errores)
        /\ ( /\ Despacha("TIPO_DATO")
             /\ posicion + 3 = Len(tokens)
             /\ Tok(Self, posicion + 1).tipo = "IDENTIFICADOR"
             /\ ~EnTabla(tabla_simbolos, Tok(Self, posicion + 1).valor)
             /\ Tok(Self, posicion + 2).tipo = "ASIGNACION" ) =>
            LET n == Tok(Self, posicion + 1)
            IN /\ errores' = Append(errores,
                     Error("ERROR", Mensaje(MsgInicIncompleta, n.valor, n.linea), n.linea))
               /\ ~Simbolo(tabla_simbolos', n.valor).inicializada
               /\ posicion' = Len(tokens)
        /\ ( /\ Despacha("IDENTIFICADOR")
             /\ posicion + 2 = Len(tokens)
             /\ EnTabla(tabla_simbolos, Tok(Self, posicion).valor)
             /\ Tok(Self, posicion + 1).tipo = "ASIGNACION" ) =>
            LET n == Tok(Self, posicion)
            IN /\ errores' = Append(errores,
                     Error("ERROR", Mensaje(MsgAsigIncompleta, n.valor, 0),
                           Tok(Self, posicion + 1).linea))
               /\ Simbolo(tabla_simbolos', n.valor).inicializada
                     = Simbolo(tabla_simbolos, n.valor).inicializada
               /\ posicion' = Len(tokens)
        /\ (pc' = "retorno" /\ codigo' = TextoUnoMasCadena) =>
            /\ errores' = << >>
            /\ Simbolo(tabla_simbolos', cA).inicializada
        /\ (codigo = TextoXMasY /\ EnBucle /\ posicion = 9) =>
            /\ Despacha("IDENTIFICADOR")
            /\ Tok(Self, posicion).valor = cY
            /\ ~Simbolo(tabla_simbolos, cY).usada
            /\ Simbolo(tabla_simbolos', cY).usada
            /\ errores' = << >>
      ]_vars

\* int x = 5 + "s" : the initializer took 5, the string after '+' raised nothing
C13_Testigo ==
    /\ pc = "retorno"
    /\ codigo = Unir(<< tInt, cX, cIgual, c5, cMas, cCad >>)
    /\ Len(tokens) = 6
    /\ Simbolo(tabla_simbolos, cX).inicializada
    /\ errores = << >>

----------------------------------------------------------------------------
(* C14 *)

\* C14: a type keyword at index i that is the last token, or whose next token is
\* not an Identifier, makes the declaration step append exactly one Error, at the
\* line of the type keyword, leave the Symbol Table as it was and the cursor at
\* i + 1, inside the loop, so that the token at i + 1 is the next one dispatched;
\* `int int x;` ends with that one Error, of the first int, and x declared int.
C14_TipoSinIdentificador ==
    [][ /\ (Despacha("TIPO_DATO") /\ posicion + 1 = Len(tokens)) =>
            LET t == Tok(Self, posicion)
            IN /\ errores' = Append(errores,
                     Error("ERROR", Mensaje(MsgDeclIncompleta, << >>, t.linea), t.linea))
               /\ tabla_simbolos' = tabla_simbolos
               /\ posicion' = posicion + 1
        /\ ( /\ Despacha("TIPO_DATO")
             /\ posicion + 1 < Len(tokens)
             /\ Tok(Self, posicion + 1).tipo # "IDENTIFICADOR" ) =>
            LET t == Tok(Self, posicion)
            IN /\ errores' = Append(errores,
                     Error("ERROR", Mensaje(MsgEsperabaId, t.valor, t.linea), t.linea))
               /\ tabla_simbolos' = tabla_simbolos
               /\ posicion' = posicion + 1
               /\ pc' = "analizar_tokens"
        /\ (pc' = "retorno" /\ codigo' = TextoIntIntX) =>
            /\ errores' = << Error("ERROR", Mensaje(MsgEsperabaId, tInt, 1), 1) >>
            /\ Nombres(tabla_simbolos') = << cX >>
            /\ tabla_simbolos'[1].tipo = tInt
      ]_vars

\* string / 5 : the Error of the type keyword carries line 1, the number after it
\* is on line 2 and was passed by the loop
C14_Testigo ==
    /\ pc = "retorno"
    /\ codigo = Unir(<< tString, cNl, c5 >>)
    /\ Len(tokens) = 2
    /\ tokens[2].linea = 2
    /\ errores = << Error("ERROR", Mensaje(MsgEsperabaId, tString, 1), 1) >>
    /\ tabla_simbolos = << >>

----------------------------------------------------------------------------
(* C15 *)
(* Two callers of analizar on one context. Each runs the lines of analizar   *)
(* and of the methods it calls in order; between two lines of one caller the  *)
(* other caller may run lines of its own, and so it may inside a line, after   *)
(* a call the line makes (len(...), Error(...)). The lines that touch the      *)
(* fields of self both before and after such a call are 181, 214 and 226:      *)
(* they are two steps each. The fields of self are shared; the argument        *)
(* codigo, the variables of the methods and the report that is being made are  *)
(* the caller's own. An exception raised by a line ends the call.              *)

MaxCorridasHilos == 3   \* calls of analizar made by the callers together
MaxCambios == 2         \* times a caller inside analizar is made to wait for the other

\* texts given by the callers
EntradasHilos ==
    { << >>,
      Unir(<< tInt, cX, cIgual, c5 >>),
      Unir(<< tInt, cX, tInt, cX >>),
      Unir(<< cY, cIgual, c5 >>),
      Unir(<< tInt, cX, cNl, cX, cIgual, cCad >>),
      Unir(<< tInt, cX, cNl, cX, cIgual >>),
      Unir(<< tInt, cX, cIgual, cX, cIf >>) }

\* the caller is inside analizar
Activo(h) == hilos[h].estado = "en_curso"

\* generar_reporte on a context that nobody else touches: the parts of the report
GenerarReporte(self) ==
    [con_tabla |-> self.tabla_simbolos # << >>,
     filas |-> self.tabla_simbolos,
     con_errores |-> self.errores # << >>,
     titulo_errores |-> Len(self.errores),
     lineas_errores |->
         [i \in 1..Len(self.errores) |->
            [linea |-> self.errores[i].linea, mensaje |-> self.errores[i].mensaje]],
     con_advertencias |-> self.advertencias # << >>,
     titulo_advertencias |-> Len(self.advertencias),
     lineas_advertencias |->
         [i \in 1..Len(self.advertencias) |->
            [linea |-> self.advertencias[i].linea,
             mensaje |-> self.advertencias[i].mensaje]],
     variables |-> Len(self.tabla_simbolos),
     errores |-> Len(self.errores),
     advertencias |-> Len(self.advertencias),
     tokens |-> Len(self.tokens),
     exito |-> self.errores = << >>]

(* A step of a caller works on g = [self |-> the shared context, loc |-> the   *)
(* caller's own variables] and gives the g after the line loc.pc, or after    *)
(* the part of it that is left when loc.dentro. A line that touches only the  *)
(* caller's own variables is taken together with the line before it.          *)

\* the caller has run the line up to the return of the call in it
Dentro(g) == [g EXCEPT !.loc.dentro = TRUE]

\* the line is done
Fuera(g) == [g EXCEPT !.loc.dentro = FALSE, !.loc.linea_leida = 0]

\* the next line to run is `linea`
Ir(g, linea) == [g EXCEPT !.loc.pc = linea]

\* self.posicion += 1
Avanzar(g) == [g EXCEPT !.self.posicion = @ + 1]

\* self.errores.append(e)
ConErrorEn(g, e) == [g EXCEPT !.self.errores = Append(@, e)]

\* self.advertencias.append(e)
ConAdvertenciaEn(g, e) == [g EXCEPT !.self.advertencias = Append(@, e)]

\* a handler returns into the loop of analizar_tokens: its variables are gone
VolverAlBucle(g) ==
    [g EXCEPT !.loc = [@ EXCEPT !.pc = 139, !.token = NoToken, !.token_nombre = NoToken,
                                !.token_valor = NoToken, !.variable = NoVariable,
                                !.desde = 0, !.pos_temp = 0,
                                !.dentro = FALSE, !.linea_leida = 0]]

\* the line raises: nothing catches it, analizar ends without a report
Lanzar(g, tipo) ==
    [g EXCEPT !.loc = [EnReposo EXCEPT !.estado = "excepcion",
                                       !.codigo = g.loc.codigo,
                                       !.solapado = g.loc.solapado,
                                       !.excepcion = [tipo |-> tipo, linea |-> g.loc.pc]]]

\* lista[i] raises IndexError
FueraDeRango(lista, i) == ~(-Len(lista) <= i /\ i < Len(lista))

\* lista[i] : a negative i counts from the end
Elemento(lista, i) == IF i >= 0 THEN lista[i + 1] ELSE lista[Len(lista) + i + 1]

\* the Variable object of the caller's reference
Objeto(g) ==
    IF g.loc.variable.suelta = << >>
    THEN Simbolo(g.self.tabla_simbolos, g.loc.variable.nombre)
    ELSE g.loc.variable.suelta[1]

\* variable.inicializada = True, on the object of the caller's reference
Inicializar(g) ==
    IF g.loc.variable.suelta = << >>
    THEN [g EXCEPT !.self = MarcarInicializada(@, g.loc.variable.nombre)]
    ELSE [g EXCEPT !.loc.variable.suelta = << [@[1] EXCEPT !.inicializada = TRUE] >>]

\* Variant of LineasLimpiarEstado: line 135 leaves the cursor where it is.
LineasLimpiarEstadoSinPosicion(g) ==
    CASE g.loc.pc = 131 -> Ir([g EXCEPT !.self.tabla_simbolos = << >>], 132)
      [] g.loc.pc = 132 -> Ir([g EXCEPT !.self.errores = << >>], 133)
      [] g.loc.pc = 133 -> Ir([g EXCEPT !.self.advertencias = << >>], 134)
      [] g.loc.pc = 134 -> Ir([g EXCEPT !.self.tokens = << >>], 135)
      [] g.loc.pc = 135 -> Ir(g, 114)

\* limpiar_estado, line by line; it returns to the lines 113, 114 of analizar
LineasLimpiarEstado(g) ==
    CASE g.loc.pc = 131 -> Ir([g EXCEPT !.self.tabla_simbolos = << >>], 132)
      [] g.loc.pc = 132 -> Ir([g EXCEPT !.self.errores = << >>], 133)
      [] g.loc.pc = 133 -> Ir([g EXCEPT !.self.advertencias = << >>], 134)
      [] g.loc.pc = 134 -> Ir([g EXCEPT !.self.tokens = << >>], 135)
      [] g.loc.pc = 135 -> Ir([g EXCEPT !.self.posicion = 0], 114)

\* analizar, lines 113..121: the token list is put in self.tokens; with no token
\* the error is appended (117) and generar_reporte is called (118)
LineasAnalizar(g) ==
    CASE g.loc.pc = 114 -> Ir([g EXCEPT !.self.tokens = Tokenizar(g.loc.codigo)], 116)
      [] g.loc.pc = 116 -> IF g.self.tokens = << >> THEN Ir(g, 117) ELSE Ir(g, 139)
      [] g.loc.pc = 117 ->
            Ir(ConErrorEn(g, Error("ERROR", Mensaje(MsgSinTokens, << >>, 0), 1)), 308)

\* analizar_tokens: the test of the loop (139), which when false returns to the
\* call of verificar_variables_no_usadas (124); the token read and the dispatch
\* (140..147); the else branch (149)
LineasAnalizarTokens(g) ==
    LET p == g.self.posicion
        toks == g.self.tokens
    IN CASE g.loc.pc = 139 -> IF p < Len(toks) THEN Ir(g, 140) ELSE Ir(g, 290)
         [] g.loc.pc = 140 ->
               IF FueraDeRango(toks, p) THEN Lanzar(g, "IndexError")
               ELSE LET token_actual == Elemento(toks, p)
                    IN IF token_actual.tipo = "TIPO_DATO" THEN Ir(g, 153)
                       ELSE IF token_actual.tipo = "IDENTIFICADOR" THEN Ir(g, 204)
                       ELSE IF token_actual.tipo = "PALABRA_CLAVE" THEN Ir(g, 242)
                       ELSE Ir(g, 149)
         [] g.loc.pc = 149 -> Ir(Avanzar(g), 139)

\* analizar_declaracion; loc.token is token_tipo
LineasDeclaracion(g) ==
    LET p == g.self.posicion
        toks == g.self.tokens
        token_tipo == g.loc.token
        token_nombre == g.loc.token_nombre
    IN CASE g.loc.pc = 153 -> IF p >= Len(toks) THEN VolverAlBucle(g) ELSE Ir(g, 156)
         [] g.loc.pc = 156 ->
               IF FueraDeRango(toks, p) THEN Lanzar(g, "IndexError")
               ELSE [g EXCEPT !.loc.token = Elemento(toks, p), !.loc.pc = 157]
         [] g.loc.pc = 157 -> Ir(Avanzar(g), 159)
         [] g.loc.pc = 159 -> IF p >= Len(toks) THEN Ir(g, 160) ELSE Ir(g, 163)
         [] g.loc.pc = 160 ->
               VolverAlBucle(ConErrorEn(g, Error("ERROR",
                   Mensaje(MsgDeclIncompleta, << >>, token_tipo.linea), token_tipo.linea)))
         [] g.loc.pc = 163 ->
               IF FueraDeRango(toks, p) THEN Lanzar(g, "IndexError")
               ELSE [g EXCEPT !.loc.token_nombre = Elemento(toks, p),
                              !.loc.pc = IF Elemento(toks, p).tipo # "IDENTIFICADOR"
                                         THEN 166 ELSE 170]
         [] g.loc.pc = 166 ->
               VolverAlBucle(ConErrorEn(g, Error("ERROR",
                   Mensaje(MsgEsperabaId, token_tipo.valor, token_tipo.linea),
                   token_tipo.linea)))
         [] g.loc.pc = 170 ->
               IF EnTabla(g.self.tabla_simbolos, token_nombre.valor)
               THEN Ir(g, 171)
               ELSE [g EXCEPT
                       !.loc.variable =
                           [nombre |-> token_nombre.valor,
                            suelta |-> << Variable(token_nombre.valor, token_tipo.valor,
                                                   token_nombre.linea) >>],
                       !.loc.pc = 176]
         [] g.loc.pc = 171 ->
               VolverAlBucle(ConErrorEn(g, Error("ERROR",
                   Mensaje(MsgYaDeclarada, token_nombre.valor, token_nombre.linea),
                   token_nombre.linea)))
         [] g.loc.pc = 176 ->
               [g EXCEPT !.self.tabla_simbolos =
                             PonerSimbolo(@, token_nombre.valor, g.loc.variable.suelta[1]),
                         !.loc.variable.suelta = << >>,
                         !.loc.pc = 178]
         [] g.loc.pc = 178 -> Ir(Avanzar(g), 181)
         [] g.loc.pc = 181 /\ ~g.loc.dentro ->
               IF p < Len(toks) THEN Dentro(g) ELSE VolverAlBucle(g)
         [] g.loc.pc = 181 /\ g.loc.dentro ->
               IF FueraDeRango(toks, p) THEN Lanzar(g, "IndexError")
               ELSE IF Elemento(toks, p).tipo = "ASIGNACION"
               THEN Ir(Fuera(g), 186)
               ELSE VolverAlBucle(g)

\* the call of verificar_compatibilidad_tipos(variable.tipo, token_valor) made at
\* line loc.desde returns `compatible`
Resuelta(g, compatible) ==
    IF g.loc.desde = 195
    THEN Ir(g, IF compatible THEN 196 ELSE 198)
    ELSE Ir(g, IF compatible THEN 234 ELSE 236)

\* verificar_compatibilidad_tipos: the call (195 or 233) with the tests of the
\* kinds of value that need no table, and for an identifier the test of the
\* table (281) and the read of the type (282, 283)
LineasCompatibilidad(g) ==
    LET token_valor == g.loc.token_valor
        tabla == g.self.tabla_simbolos
    IN CASE g.loc.pc \in {195, 233} ->
               LET g1 == [g EXCEPT !.loc.desde = g.loc.pc]
               IN IF token_valor.tipo = "IDENTIFICADOR"
                  THEN Ir(g1, 281)
                  ELSE Resuelta(g1, VerificarCompatibilidadTipos(g.self, Objeto(g).tipo,
                                                                 token_valor))
         [] g.loc.pc = 281 ->
               IF EnTabla(tabla, token_valor.valor) THEN Ir(g, 282) ELSE Resuelta(g, FALSE)
         [] g.loc.pc = 282 ->
               IF ~EnTabla(tabla, token_valor.valor) THEN Lanzar(g, "KeyError")
               ELSE Resuelta(g, Simbolo(tabla, token_valor.valor).tipo
                                    \in CompatibilidadTipos(Objeto(g).tipo))

\* analizar_inicializacion(variable)
LineasInicializacion(g) ==
    LET p == g.self.posicion
        toks == g.self.tokens
    IN CASE g.loc.pc = 186 -> Ir(Avanzar(g), 188)
         [] g.loc.pc = 188 -> IF p >= Len(toks) THEN Ir(g, 189) ELSE Ir(g, 192)
         [] g.loc.pc = 189 ->
               VolverAlBucle(ConErrorEn(g, Error("ERROR",
                   Mensaje(MsgInicIncompleta, Objeto(g).nombre, Objeto(g).linea_declaracion),
                   Objeto(g).linea_declaracion)))
         [] g.loc.pc = 192 ->
               IF FueraDeRango(toks, p) THEN Lanzar(g, "IndexError")
               ELSE [g EXCEPT !.loc.token_valor = Elemento(toks, p), !.loc.pc = 195]
         [] g.loc.pc = 196 -> Ir(Inicializar(g), 200)
         [] g.loc.pc = 198 ->
               Ir(ConErrorEn(g, Error("ERROR",
                      Mensaje(MsgIncompatibleInic, Objeto(g).nombre,
                              Objeto(g).linea_declaracion),
                      Objeto(g).linea_declaracion)), 200)
         [] g.loc.pc = 200 -> VolverAlBucle(Avanzar(g))

\* analizar_identificador; loc.token is token_identificador
LineasIdentificador(g) ==
    LET p == g.self.posicion
        toks == g.self.tokens
        token_identificador == g.loc.token
    IN CASE g.loc.pc = 204 ->
               IF FueraDeRango(toks, p) THEN Lanzar(g, "IndexError")
               ELSE [g EXCEPT !.loc.token = Elemento(toks, p), !.loc.pc = 207]
         [] g.loc.pc = 207 ->
               IF ~EnTabla(g.self.tabla_simbolos, token_identificador.valor)
               THEN Ir(g, 208) ELSE Ir(g, 211)
         [] g.loc.pc = 208 ->
               Ir(ConErrorEn(g, Error("ERROR",
                      Mensaje(MsgNoDeclarada, token_identificador.valor,
                              token_identificador.linea),
                      token_identificador.linea)), 219)
         [] g.loc.pc = 211 ->
               IF ~EnTabla(g.self.tabla_simbolos, token_identificador.valor)
               THEN Lanzar(g, "KeyError")
               ELSE Ir([g EXCEPT !.self = MarcarUsada(@, token_identificador.valor)], 214)
         [] g.loc.pc = 214 /\ ~g.loc.dentro ->
               IF p + 1 < Len(toks) THEN Dentro(g) ELSE Ir(g, 219)
         [] g.loc.pc = 214 /\ g.loc.dentro ->
               IF FueraDeRango(toks, p + 1) THEN Lanzar(g, "IndexError")
               ELSE IF Elemento(toks, p + 1).tipo = "ASIGNACION"
               THEN Ir(Fuera(g), 215) ELSE Ir(Fuera(g), 219)
         [] g.loc.pc = 215 -> Ir(Avanzar(g), 223)
         [] g.loc.pc = 219 -> VolverAlBucle(Avanzar(g))

\* analizar_asignacion(nombre_variable); nombre_variable is the valor of loc.token
LineasAsignacion(g) ==
    LET p == g.self.posicion
        toks == g.self.tokens
        nombre_variable == g.loc.token.valor
    IN CASE g.loc.pc = 223 -> Ir(Avanzar(g), 225)
         [] g.loc.pc = 225 -> IF p >= Len(toks) THEN Ir(g, 226) ELSE Ir(g, 229)
         [] g.loc.pc = 226 /\ ~g.loc.dentro ->
               IF FueraDeRango(toks, p - 1) THEN Lanzar(g, "IndexError")
               ELSE Dentro([g EXCEPT !.loc.linea_leida = Elemento(toks, p - 1).linea])
         [] g.loc.pc = 226 /\ g.loc.dentro ->
               VolverAlBucle(ConErrorEn(g, Error("ERROR",
                   Mensaje(MsgAsigIncompleta, nombre_variable, 0), g.loc.linea_leida)))
         [] g.loc.pc = 229 ->
               IF FueraDeRango(toks, p) THEN Lanzar(g, "IndexError")
               ELSE [g EXCEPT !.loc.token_valor = Elemento(toks, p), !.loc.pc = 230]
         [] g.loc.pc = 230 ->
               IF ~EnTabla(g.self.tabla_simbolos, nombre_variable)
               THEN Lanzar(g, "KeyError")
               ELSE [g EXCEPT !.loc.variable = [nombre |-> nombre_variable,
                                                suelta |-> << >>],
                              !.loc.pc = 233]
         [] g.loc.pc = 234 -> Ir(Inicializar(g), 238)
         [] g.loc.pc = 236 ->
               Ir(ConErrorEn(g, Error("ERROR",
                      Mensaje(MsgIncompatibleAsig, nombre_variable, g.loc.token_valor.linea),
                      g.loc.token_valor.linea)), 238)
         [] g.loc.pc = 238 -> VolverAlBucle(Avanzar(g))

\* analizar_palabra_clave and analizar_estructura_control; loc.token is
\* token_palabra
LineasPalabraClave(g) ==
    LET p == g.self.posicion
        toks == g.self.tokens
        token_palabra == g.loc.token
        pos_temp == g.loc.pos_temp
    IN CASE g.loc.pc = 242 ->
               IF FueraDeRango(toks, p) THEN Lanzar(g, "IndexError")
               ELSE [g EXCEPT !.loc.token = Elemento(toks, p),
                              !.loc.pc = IF Elemento(toks, p).valor \in EstructurasControl
                                         THEN 254 ELSE 248]
         [] g.loc.pc = 254 -> [g EXCEPT !.loc.pos_temp = p + 1, !.loc.pc = 256]
         [] g.loc.pc = 256 -> IF pos_temp < Len(toks) THEN Ir(g, 257) ELSE Ir(g, 263)
         [] g.loc.pc = 257 ->
               IF FueraDeRango(toks, pos_temp) THEN Lanzar(g, "IndexError")
               ELSE IF /\ Elemento(toks, pos_temp).tipo = "PARENTESIS"
                       /\ Elemento(toks, pos_temp).valor = << "(" >>
               THEN Ir(g, 248)
               ELSE [g EXCEPT !.loc.pos_temp = @ + 1, !.loc.pc = 256]
         [] g.loc.pc = 263 ->
               Ir(ConErrorEn(g, Error("ERROR",
                      Mensaje(MsgEsperabaParen, token_palabra.valor, token_palabra.linea),
                      token_palabra.linea)), 248)
         [] g.loc.pc = 248 -> VolverAlBucle(Avanzar(g))

\* the head of a for loop over self.tabla_simbolos.values() or .items(): the
\* first time the iterator is made, with the size of the dict; then, and every
\* time the loop comes back, the next item is asked for. A dict whose size is
\* not the one remembered raises RuntimeError; else the item at the iterator's
\* index is given (the loop goes on at `dentro`) or, with none there, the loop
\* ends (at `fuera`).
SiguienteDeTabla(g, dentro, fuera) ==
    LET tabla == g.self.tabla_simbolos
        it == IF g.loc.iter = NoIter THEN [pos |-> 0, usado |-> Len(tabla)]
              ELSE g.loc.iter
    IN IF Len(tabla) # it.usado THEN Lanzar(g, "RuntimeError")
       ELSE IF it.pos < Len(tabla)
       THEN [g EXCEPT !.loc.variable = [nombre |-> tabla[it.pos + 1].nombre,
                                        suelta |-> << >>],
                      !.loc.iter = [it EXCEPT !.pos = @ + 1],
                      !.loc.pc = dentro]
       ELSE [g EXCEPT !.loc.variable = NoVariable, !.loc.iter = NoIter, !.loc.pc = fuera]

\* verificar_variables_no_usadas; it returns to the call of
\* verificar_variables_no_inicializadas (125)
LineasNoUsadas(g) ==
    CASE g.loc.pc = 290 -> SiguienteDeTabla(g, 291, 296)
      [] g.loc.pc = 291 -> IF ~Objeto(g).usada THEN Ir(g, 292) ELSE Ir(g, 290)
      [] g.loc.pc = 292 ->
            Ir(ConAdvertenciaEn(g, Error("ADVERTENCIA",
                   Mensaje(MsgNoUsada, Objeto(g).nombre, 0),
                   Objeto(g).linea_declaracion)), 290)

\* verificar_variables_no_inicializadas; it returns to the call of
\* generar_reporte (127)
LineasNoInicializadas(g) ==
    CASE g.loc.pc = 296 -> SiguienteDeTabla(g, 297, 308)
      [] g.loc.pc = 297 ->
            IF Objeto(g).usada /\ ~Objeto(g).inicializada THEN Ir(g, 298) ELSE Ir(g, 296)
      [] g.loc.pc = 298 ->
            Ir(ConAdvertenciaEn(g, Error("ADVERTENCIA",
                   Mensaje(MsgSinInicializar, Objeto(g).nombre, 0),
                   Objeto(g).linea_declaracion)), 296)

\* the head of a for loop over a list (320, 327): the item at the iterator's
\* index is put in the report, or with none there the loop ends
SiguienteDeLista(g, lista, fuera) ==
    LET k == IF g.loc.iter = NoIter THEN 0 ELSE g.loc.iter.pos
    IN IF k < Len(lista)
       THEN [g EXCEPT !.loc.iter = [pos |-> k + 1, usado |-> 0]]
       ELSE [g EXCEPT !.loc.iter = NoIter, !.loc.pc = fuera]

\* the item the loop over the list is at
ItemDeLista(g, lista) ==
    LET k == IF g.loc.iter = NoIter THEN 0 ELSE g.loc.iter.pos
    IN [linea |-> lista[k + 1].linea, mensaje |-> lista[k + 1].mensaje]

\* generar_reporte, and the return of analizar with the report
LineasReporte(g) ==
    LET self == g.self
    IN CASE g.loc.pc = 308 ->
               IF self.tabla_simbolos # << >>
               THEN [g EXCEPT !.loc.reporte.con_tabla = TRUE, !.loc.pc = 311]
               ELSE Ir(g, 317)
         [] g.loc.pc = 311 -> SiguienteDeTabla(g, 312, 317)
         [] g.loc.pc = 312 ->
               [g EXCEPT !.loc.estado_fila = Objeto(g).inicializada, !.loc.pc = 313]
         [] g.loc.pc = 313 ->
               [g EXCEPT !.loc.reporte.filas =
                             Append(@, [Objeto(g) EXCEPT
                                          !.inicializada = g.loc.estado_fila]),
                         !.loc.estado_fila = FALSE,
                         !.loc.pc = 311]
         [] g.loc.pc = 317 ->
               IF self.errores # << >>
               THEN [g EXCEPT !.loc.reporte.con_errores = TRUE, !.loc.pc = 318]
               ELSE Ir(g, 324)
         [] g.loc.pc = 318 ->
               [g EXCEPT !.loc.reporte.titulo_errores = Len(self.errores), !.loc.pc = 320]
         [] g.loc.pc = 320 ->
               IF (IF g.loc.iter = NoIter THEN 0 ELSE g.loc.iter.pos) < Len(self.errores)
               THEN SiguienteDeLista(
                        [g EXCEPT !.loc.reporte.lineas_errores =
                                      Append(@, ItemDeLista(g, self.errores))],
                        self.errores, 324)
               ELSE SiguienteDeLista(g, self.errores, 324)
         [] g.loc.pc = 324 ->
               IF self.advertencias # << >>
               THEN [g EXCEPT !.loc.reporte.con_advertencias = TRUE, !.loc.pc = 325]
               ELSE Ir(g, 333)
         [] g.loc.pc = 325 ->
               [g EXCEPT !.loc.reporte.titulo_advertencias = Len(self.advertencias),
                         !.loc.pc = 327]
         [] g.loc.pc = 327 ->
               IF (IF g.loc.iter = NoIter THEN 0 ELSE g.loc.iter.pos)
                      < Len(self.advertencias)
               THEN SiguienteDeLista(
                        [g EXCEPT !.loc.reporte.lineas_advertencias =
                                      Append(@, ItemDeLista(g, self.advertencias))],
                        self.advertencias, 333)
               ELSE SiguienteDeLista(g, self.advertencias, 333)
         [] g.loc.pc = 333 ->
               [g EXCEPT !.loc.reporte.variables = Len(self.tabla_simbolos), !.loc.pc = 334]
         [] g.loc.pc = 334 ->
               [g EXCEPT !.loc.reporte.errores = Len(self.errores), !.loc.pc = 335]
         [] g.loc.pc = 335 ->
               [g EXCEPT !.loc.reporte.advertencias = Len(self.advertencias),
                         !.loc.pc = 336]
         [] g.loc.pc = 336 ->
               [g EXCEPT !.loc.reporte.tokens = Len(self.tokens), !.loc.pc = 338]
         [] g.loc.pc = 338 ->
               [g EXCEPT !.loc =
                   [EnReposo EXCEPT
                      !.estado = "retorno",
                      !.codigo = g.loc.codigo,
                      !.solapado = g.loc.solapado,
                      !.visto = << [g.loc.reporte EXCEPT !.exito = self.errores = << >>] >>]]

\* the line loc.pc of the caller
EjecutarLinea(g) ==
    LET linea == g.loc.pc
    IN CASE linea \in 131..135 -> LineasLimpiarEstado(g)
         [] linea \in 113..121 -> LineasAnalizar(g)
         [] linea \in 139..149 -> LineasAnalizarTokens(g)
         [] linea \in 153..181 -> LineasDeclaracion(g)
         [] linea \in {186, 188, 189, 192, 196, 198, 200} -> LineasInicializacion(g)
         [] linea \in 204..219 -> LineasIdentificador(g)
         [] linea \in {223, 225, 226, 229, 230, 234, 236, 238} -> LineasAsignacion(g)
         [] linea \in 242..263 -> LineasPalabraClave(g)
         [] linea \in {195, 233, 281, 282} -> LineasCompatibilidad(g)
         [] linea \in 290..292 -> LineasNoUsadas(g)
         [] linea \in 296..298 -> LineasNoInicializadas(g)
         [] linea \in 308..338 -> LineasReporte(g)

\* What a line run by one caller does to the reference the other caller holds:
\* self.tabla_simbolos.clear() (131) takes every object out of the table, and
\* the store of line 176 puts a new object under `nombre`; the object the other
\* caller's reference was to is then no longer the table's.
Soltar(loc, self, linea, nombre) ==
    IF /\ loc.variable # NoVariable
       /\ loc.variable.suelta = << >>
       /\ linea = 131 \/ (linea = 176 /\ loc.variable.nombre = nombre)
    THEN [loc EXCEPT !.variable.suelta =
                         << Simbolo(self.tabla_simbolos, loc.variable.nombre) >>]
    ELSE loc

\* a step of caller h makes caller o wait: o is inside analizar and ran last
Espera(h, o) == o # h /\ Activo(o) /\ hilos[o].ultimo

\* caller h may run: no caller has to wait for it, or one more wait is allowed
PuedeCorrer(h) ==
    \A o \in Hilos :
        Espera(h, o) => hilos[1].esperas + hilos[2].esperas < MaxCambios

\* the other caller after a step of h
Cede(h, o, loc) ==
    [loc EXCEPT !.ultimo = FALSE,
                !.esperas = IF Espera(h, o) THEN @ + 1 ELSE @]

\* caller h after its step
Corre(h, loc) == [loc EXCEPT !.ultimo = TRUE, !.esperas = hilos[h].esperas]

\* caller h calls analizar(cod) and comes to the first line of limpiar_estado.
\* A call made while the other caller is inside analizar overlaps with it. What
\* a call that has ended gave its caller is kept until the next call on the
\* context. (The callers are alike: the one that calls first is caller 1.)
HiloLlama(h) ==
    /\ ~Activo(h)
    /\ PuedeCorrer(h)
    /\ corridas < MaxCorridasHilos
    /\ corridas = 0 => h = 1
    /\ \E cod \in EntradasHilos :
         hilos' = [o \in Hilos |->
                     IF o = h
                     THEN Corre(h, [EnReposo EXCEPT
                             !.estado = "en_curso", !.pc = 131, !.codigo = cod,
                             !.solapado = \E q \in Hilos \ {h} : Activo(q)])
                     ELSE IF Activo(o)
                     THEN Cede(h, o, [hilos[o] EXCEPT !.solapado = TRUE])
                     ELSE [EnReposo EXCEPT !.esperas = hilos[o].esperas]]
    /\ corridas' = corridas + 1
    /\ UNCHANGED <<pc, codigo, tokens, posicion, tabla_simbolos, errores, advertencias>>

\* caller h runs the line it stands before
HiloLinea(h) ==
    /\ Activo(h)
    /\ PuedeCorrer(h)
    /\ LET g == EjecutarLinea([self |-> Self, loc |-> hilos[h]])
       IN /\ Poner(g.self)
          /\ hilos' = [o \in Hilos |->
                         IF o = h THEN Corre(h, g.loc)
                         ELSE Cede(h, o, Soltar(hilos[o], Self, hilos[h].pc,
                                                hilos[h].token_nombre.valor))]
    /\ UNCHANGED <<pc, codigo, corridas>>

NextHilos ==
    \E h \in Hilos :
        \/ HiloLlama(h)
        \/ HiloLinea(h)

SpecHilos == Init /\ [][NextHilos]_vars

\* the report of the text analysed alone on a new context
Aislado(cod) == GenerarReporte(Analizar(ContextoNuevo, cod))

\* C15: a call of analizar that did not overlap with a call of the other caller
\* of the same context returns the report, with the Symbol Table, the Errors and
\* the Warnings, of its text analysed alone, whatever calls were made on the
\* context before it and however they ended. (A call that did overlap can return
\* something else: C15_Testigo.)
C15_UnaTrasOtraComoAislada ==
    \A h \in Hilos :
        (hilos[h].estado # "en_curso" /\ hilos[h].estado # "reposo" /\ ~hilos[h].solapado)
            => /\ hilos[h].estado = "retorno"
               /\ hilos[h].visto = << Aislado(hilos[h].codigo) >>

\* one caller has returned from a call that overlapped with the other's, with a
\* report whose Symbol Table, Errors and Warnings are not those of its text
\* analysed alone, and the other caller's overlapping call has ended with an
\* exception
C15_Testigo ==
    \E h \in Hilos, o \in Hilos :
        /\ h # o
        /\ hilos[h].estado = "retorno"
        /\ hilos[h].solapado
        /\ hilos[h].visto[1].filas # Aislado(hilos[h].codigo).filas
        /\ hilos[h].visto[1].lineas_errores # Aislado(hilos[h].codigo).lineas_errores
        /\ hilos[h].visto[1].lineas_advertencias
               # Aislado(hilos[h].codigo).lineas_advertencias
        /\ hilos[o].estado = "excepcion"
        /\ hilos[o].solapado

----------------------------------------------------------------------------
(* C16 *)

\* a maximal run of operator characters of the line starts at p
InicioRacha(linea, p) ==
    /\ linea[p] \in CarOperador
    /\ p = 1 \/ linea[p - 1] \notin CarOperador

\* the tokens the rules give for the run of operator characters that starts at p:
\* one ASIGNACION token for each '=' at its head, then one OPERADOR token holding
\* what is left of the run
TokensDeRacha(linea, p, num_linea) ==
    LET fin == p + Racha(linea, p, CarOperador) - 1
        k == Racha(linea, p, {"="})
    IN { Token("ASIGNACION", << "=" >>, num_linea, (p + j) - 1) : j \in 0..(k - 1) }
       \cup ( IF p + k <= fin
              THEN { Token("OPERADOR", SubSeq(linea, p + k, fin), num_linea, (p + k) - 1) }
              ELSE {} )

\* the ASIGNACION and OPERADOR tokens of toks are those of the runs of operator
\* characters of the lines of cod (lines without a string literal)
OperadoresSegunReglas(cod, toks) ==
    LET lineas == Split(cod, 1, << >>)
    IN \A nl \in 1..Len(lineas) :
         LET linea == Strip(lineas[nl])
         IN ( /\ linea # << >>
              /\ ~EmpiezaComentario(linea)
              /\ \A q \in 1..Len(linea) : linea[q] # "\"" )
            => { toks[i] : i \in { i \in 1..Len(toks) :
                                     /\ toks[i].linea = nl
                                     /\ toks[i].tipo \in {"ASIGNACION", "OPERADOR"} } }
               = UNION { TokensDeRacha(linea, p, nl) :
                           p \in { p \in 1..Len(linea) : InicioRacha(linea, p) } }

\* C16: in every text the tokens of a run of operator characters are one
\* single-character ASIGNACION token for each '=' at the head of the run and one
\* OPERADOR token for the rest of the run, which so starts with a character other
\* than '=' and goes to the end of the run: `<=` and `!=` are one OPERADOR, `==`
\* two ASIGNACION, `=>` ASIGNACION then OPERADOR. For a declared x, `x == 5` is an
\* assignment whose value token is the second '=' and appends 'Tipo incompatible
\* en asignacion'.
C16_PrecedenciaDelLexico ==
    [][ /\ OperadoresSegunReglas(codigo', tokens')
        /\ \A i \in 1..Len(tokens') :
              /\ tokens'[i].tipo = "ASIGNACION" => tokens'[i].valor = << "=" >>
              /\ tokens'[i].tipo = "OPERADOR" =>
                    /\ tokens'[i].valor[1] # "="
                    /\ \A k \in 1..Len(tokens'[i].valor) : tokens'[i].valor[k] \in CarOperador
        /\ codigo' = cMenorIgual => tokens' = << Token("OPERADOR", cMenorIgual, 1, 0) >>
        /\ codigo' = cDistinto => tokens' = << Token("OPERADOR", cDistinto, 1, 0) >>
        /\ codigo' = cIgualIgual =>
              tokens' = << Token("ASIGNACION", cIgual, 1, 0), Token("ASIGNACION", cIgual, 1, 1) >>
        /\ codigo' = cFlecha =>
              tokens' = << Token("ASIGNACION", cIgual, 1, 0), Token("OPERADOR", cMayor, 1, 1) >>
        /\ ( /\ AsignaConValor
             /\ codigo \in { Unir(<< t, cX, cNl, cX, cIgualIgual, c5 >>) : t \in {tInt, tBool} } )
           => /\ Tok(Self, posicion + 2) = Token("ASIGNACION", cIgual, 2, 3)
              /\ errores' = Append(errores,
                    Error("ERROR", Mensaje(MsgIncompatibleAsig, cX, 2), 2))
              /\ posicion' = posicion + 3
      ]_vars

\* int x / x == 5 : four tokens on line 2, the Error of the assignment, and 5
\* passed by the loop
C16_Testigo ==
    /\ pc = "retorno"
    /\ codigo = Unir(<< tInt, cX, cNl, cX, cIgualIgual, c5 >>)
    /\ Len(tokens) = 6
    /\ tokens[4].tipo = "ASIGNACION" /\ tokens[5].tipo = "ASIGNACION"
    /\ errores = << Error("ERROR", Mensaje(MsgIncompatibleAsig, cX, 2), 2) >>
    /\ ~Simbolo(tabla_simbolos, cX).inicializada

----------------------------------------------------------------------------
(* C17 *)

\* the line numbers of the sequence never go down
LineasNoDecrecen(sec) ==
    \A i, j \in 1..Len(sec) : i < j => sec[i].linea <= sec[j].linea

\* C17: the tokens of the lexer come with line numbers that never go down, and
\* in every state the Errors are in the order of their lines: an Error added by
\* a step has a line at least that of every Error recorded before it.
C17_ErroresPorLinea ==
    [][ /\ LineasNoDecrecen(tokens')
        /\ LineasNoDecrecen(errores')
        /\ MismoAnalisis =>
              /\ Len(errores') >= Len(errores)
              /\ SubSeq(errores', 1, Len(errores)) = errores
              /\ \A j \in (Len(errores) + 1)..Len(errores') :
                    \A i \in 1..Len(errores) : errores[i].linea <= errores'[j].linea
      ]_vars

\* int x / int / x / = / "s" / y : 'ya declarada' at the line of the name (3),
\* 'Tipo incompatible en asignacion' at the line of the value (5), 'no declarada'
\* at line 6
C17_Testigo ==
    /\ pc = "retorno"
    /\ codigo = Unir(<< tInt, cX, cNl, tInt, cNl, cX, cNl, cIgual, cNl, cCad, cNl, cY >>)
    /\ Len(errores) = 3
    /\ errores[1].linea = 3 /\ errores[1].mensaje.formato = MsgYaDeclarada
    /\ errores[2].linea = 5 /\ errores[2].mensaje.formato = MsgIncompatibleAsig
    /\ errores[3].linea = 6 /\ errores[3].mensaje.formato = MsgNoDeclarada

----------------------------------------------------------------------------
(* C18 *)

\* C18: a declaration `T n = v` whose value token v is an identifier, n itself or
\* a name declared before with the type T, T other than void, appends no Error
\* and sets n.inicializada, whether or not the variable of v is initialized (n
\* is in the table when its initializer is checked); and no Symbol of type void
\* is ever initialized.
C18_IdentificadorSinMirarInicializada ==
    [][ /\ \A i \in 1..Len(tabla_simbolos') :
              tabla_simbolos'[i].tipo = tVoid => ~tabla_simbolos'[i].inicializada
        /\ ( /\ InicializaConValor
             /\ Tok(Self, posicion).valor # tVoid
             /\ Tok(Self, posicion + 3).tipo = "IDENTIFICADOR"
             /\ \/ Tok(Self, posicion + 3).valor = Tok(Self, posicion + 1).valor
                \/ /\ EnTabla(tabla_simbolos, Tok(Self, posicion + 3).valor)
                   /\ Simbolo(tabla_simbolos, Tok(Self, posicion + 3).valor).tipo
                         = Tok(Self, posicion).valor )
           => /\ errores' = errores
              /\ EnTabla(tabla_simbolos', Tok(Self, posicion + 1).valor)
              /\ Simbolo(tabla_simbolos', Tok(Self, posicion + 1).valor).inicializada
        /\ ( /\ InicializaConValor
             /\ Tok(Self, posicion).valor = tVoid )
           => /\ Len(errores') = Len(errores) + 1
              /\ errores'[Len(errores')].mensaje.formato = MsgIncompatibleInic
      ]_vars

\* char y / char x = y / x = x : x was initialized from y, which never was; the
\* assignment of x to itself raised nothing
C18_Testigo ==
    /\ pc = "retorno"
    /\ codigo = Unir(<< tChar, cY, cNl, tChar, cX, cIgual, cY, cNl, cX, cIgual, cX >>)
    /\ ~Simbolo(tabla_simbolos, cY).inicializada
    /\ Simbolo(tabla_simbolos, cX).inicializada
    /\ errores = << >>

====
